---- MODULE Spec2Model ----
(***************************************************************************)
(* ESahayak lead management: the buyer API (create, read, update, delete,  *)
(* CSV import), its zod validation schemas and the in-process rate         *)
(* limiter, as a state machine over the buyers and buyer_history tables    *)
(* and the limiter's shared store.                                         *)
(*                                                                         *)
(* A request handler is an async function: it is split at the database     *)
(* statements it awaits, so that the statements of concurrent requests     *)
(* interleave the way they do on the host runtime.  Each statement may     *)
(* fail (the ok input of the step).                                        *)
(***************************************************************************)
EXTENDS Integers, Sequences, FiniteSets, TLC

VARIABLES
  now,       \* the clock, in milliseconds (Date.now(), new Date(), defaultNow())
  ticks,     \* how often the clock has advanced
  buyers,    \* the buyers table, a set of rows
  history,   \* the buyer_history table, a set of rows
  nextId,    \* the next generated uuid
  nreq,      \* requests started so far
  procs,     \* the request being handled in each slot of the runtime
  store,     \* the rate limiter's module-level Map, key -> {count, resetTime}
  rlLast,    \* the latest limiter check: its inputs, result and response
  rlGranted, \* per key, the allowed checks counted since the window opened
  users,     \* table users
  sessions,  \* table sessions
  customTokenStore, \* the custom-verify route's module-level Map, token -> data
  verifs,    \* the custom-verify GET requests, one per slot
  mwLast,    \* the latest request the middleware saw, and its answer
  exLast,    \* the latest export request, and its answer
  verificationTokens, \* table verification_tokens
  signups,   \* the POST /api/auth/signup requests, one per slot
  mailLast,  \* the latest send-verification-email request, and its answer
  adLast,    \* the latest call of an adapter method, and what it returned
  loLast     \* the latest POST /api/auth/logout request, and its answer

\* the state of sign-in, route protection and export
\* the state of signup, of the adapter's callers and of sign-out
acctVars == <<verificationTokens, signups, mailLast, adLast, loLast>>

auxVars == <<users, sessions, customTokenStore, verifs, mwLast, exLast, acctVars>>

vars == <<now, ticks, buyers, history, nextId, nreq, procs, store, rlLast, rlGranted,
          users, sessions, customTokenStore, verifs, mwLast, exLast,
          verificationTokens, signups, mailLast, adLast, loLast>>

\* ------------------------------------------------------------------ bounds
MaxTicks == 2
MaxReqs == 3
MaxChecks == 11
MaxInvReqs == 2
MaxAuthReqs == 4

\* ------------------------------------------------------------------ values
Users == {"u1", "u2"}
NoUser == "none"
Procs == {"p1", "p2"}

\* JavaScript undefined / a key that is missing, and null, for string fields
Absent == "<absent>"
Null == "<null>"
\* the same two for numeric fields, and parseInt's NaN
AbsentNum == 0 - 1
NullNum == 0 - 2
NaN == 0 - 3
NoId == 0 - 4
NoTime == 0 - 1

\* A phone string is kept as what the regex looks at: whether all of its
\* characters are digits, and its length.
Phone(allDigits, len) == [allDigits |-> allDigits, len |-> len]
GoodPhone == Phone(TRUE, 10)
ShortPhone == Phone(TRUE, 5)
LongPhone == Phone(TRUE, 18)
EmptyPhone == Phone(TRUE, 0)

\* A JSON value in the place of updatedAt: a body read with request.json()
\* carries a string (the ISO text of a timestamp), never a Date object
\* (which would be kind "date").
NoDate == [kind |-> "absent", t |-> NoTime]
JsonString(t) == [kind |-> "string", t |-> t]

propertyTypeSchema == {"Apartment", "Villa", "Plot", "Office", "Retail"}
bhkSchema == {"1", "2", "3", "4", "Studio"}
statusSchema == {"New", "Qualified", "Contacted", "Visited", "Negotiation",
                 "Converted", "Dropped"}
WellFormedEmails == {"a@x.in", "b@x.in"}

\* -------------------------------------------------------------- validation
\* /^\d{10,15}$/ with .min(10) and .max(15)
phoneSchemaOK(p) == p.allDigits /\ p.len >= 10 /\ p.len <= 15

\* z.string().email().optional().or(z.literal(""))
emailOK(e) == e = Absent \/ e = "" \/ e \in WellFormedEmails

\* z.number().int().positive().optional()
budgetOK(n) == n = AbsentNum \/ n > 0

\* z.date().optional(): only a Date object passes
zDateOK(d) == d.kind \in {"absent", "date"}

\* the refinement on bhk: ["Apartment","Villa"].includes(propertyType) => !!bhk
bhkRefineNoCheck(d) == TRUE
bhkRefine(d) ==
  IF d.propertyType \in {"Apartment", "Villa"}
  THEN d.bhk # Absent /\ d.bhk # ""
  ELSE TRUE

\* the refinement on the budget: budgetMin && budgetMax => budgetMax >= budgetMin
budgetRefine(d) ==
  IF d.budgetMin # AbsentNum /\ d.budgetMin # 0
     /\ d.budgetMax # AbsentNum /\ d.budgetMax # 0
  THEN d.budgetMax >= d.budgetMin
  ELSE TRUE

\* a zod issue: the field it is reported on and the check that failed
Issue(path, code) == [path |-> path, code |-> code]

RefineErrors(d) ==
  (IF bhkRefine(d) THEN {} ELSE {Issue("bhk", "custom")})
  \cup (IF budgetRefine(d) THEN {} ELSE {Issue("budgetMax", "custom")})

\* phoneSchema: the regex, .min(10) and .max(15) each report their own issue
phoneIssues(p) ==
  (IF phoneSchemaOK(p) THEN {} ELSE {Issue("phone", "regex")})
  \cup (IF p.len >= 10 THEN {} ELSE {Issue("phone", "too_small")})
  \cup (IF p.len <= 15 THEN {} ELSE {Issue("phone", "too_big")})

\* the fields of the object schema that create and update share; fullName,
\* city, purpose, timeline and source are required like phone and are held
\* at a valid value throughout
CommonErrors(b) ==
  phoneIssues(b.phone)
  \cup (IF emailOK(b.email) THEN {} ELSE {Issue("email", "invalid")})
  \cup (IF b.propertyType \in propertyTypeSchema THEN {} ELSE {Issue("propertyType", "invalid")})
  \cup (IF b.bhk = Absent \/ b.bhk \in bhkSchema THEN {} ELSE {Issue("bhk", "invalid")})
  \cup (IF budgetOK(b.budgetMin) THEN {} ELSE {Issue("budgetMin", "invalid")})
  \cup (IF budgetOK(b.budgetMax) THEN {} ELSE {Issue("budgetMax", "invalid")})

\* createBuyerSchema.parse: the issues it throws; the refinements run once
\* the object itself is valid
createBuyerErrors(b) ==
  IF CommonErrors(b) # {} THEN CommonErrors(b) ELSE RefineErrors(b)

\* the value createBuyerSchema.parse returns: unknown keys (status,
\* updatedAt) are stripped and tags defaults to []
createBuyerParsed(b) ==
  [b EXCEPT !.status = Absent, !.updatedAt = NoDate,
            !.hasTags = TRUE, !.tags = IF b.hasTags THEN b.tags ELSE <<>>]

updateBuyerBaseErrors(b) ==
  CommonErrors(b)
  \cup (IF b.status = Absent \/ b.status \in statusSchema THEN {} ELSE {Issue("status", "invalid")})
  \cup (IF zDateOK(b.updatedAt) THEN {} ELSE {Issue("updatedAt", "invalid_type")})

\* updateBuyerSchema.parse
updateBuyerErrors(b) ==
  IF updateBuyerBaseErrors(b) # {} THEN updateBuyerBaseErrors(b) ELSE RefineErrors(b)

updateBuyerParsed(b) ==
  [b EXCEPT !.hasTags = TRUE, !.tags = IF b.hasTags THEN b.tags ELSE <<>>]

\* ------------------------------------------------------------ rate limiter
apiRateLimiter ==
  [name |-> "api", maxRequests |-> 100, windowMs |-> 15 * 60 * 1000, keyGenerator |-> "default"]
buyerMutationRateLimiter ==
  [name |-> "buyerMutation", maxRequests |-> 10, windowMs |-> 60 * 1000, keyGenerator |-> "default"]
csvImportRateLimiter ==
  [name |-> "csvImport", maxRequests |-> 3, windowMs |-> 60 * 1000, keyGenerator |-> "default"]
authRateLimiter ==
  [name |-> "auth", maxRequests |-> 5, windowMs |-> 15 * 60 * 1000, keyGenerator |-> "auth"]

Limiters == {apiRateLimiter, buyerMutationRateLimiter, csvImportRateLimiter, authRateLimiter}

\* the headers a limiter key is built from
Headers(ip, userId) == [ip |-> ip, userId |-> userId]

defaultKeyGenerator(h) == h.ip \o ":" \o h.userId
authKeyGenerator(h) == "auth:" \o h.ip
keyOf(limiter, h) ==
  IF limiter.keyGenerator = "auth" THEN authKeyGenerator(h) ELSE defaultKeyGenerator(h)

\* RateLimiter.cleanup: drop every entry whose window is over
cleanup(s, t) == [k \in {j \in DOMAIN s : ~(t > s[j].resetTime)} |-> s[k]]

storeSet(s, key, data) == [k \in DOMAIN s \cup {key} |-> IF k = key THEN data ELSE s[k]]

\* the comparison that denies a check
limitExceededOffByOne(count, maxRequests) == count > maxRequests
limitExceeded(count, maxRequests) == count >= maxRequests

\* the entry a check writes when it opens a window
newEntryCountsNothing(limiter, t) == [count |-> 0, resetTime |-> t + limiter.windowMs]
newEntry(limiter, t) == [count |-> 1, resetTime |-> t + limiter.windowMs]

\* store.get(key), undefined as NoEntry
NoEntry == [count |-> 0, resetTime |-> NoTime]
storeGet(s, key) == IF key \in DOMAIN s THEN s[key] ELSE NoEntry

\* RateLimiter.check at time t: the result and the store it leaves
check(limiter, key, s, t) ==
  LET c == cleanup(s, t) IN
  IF key \notin DOMAIN c \/ t > c[key].resetTime
  THEN LET data == newEntry(limiter, t) IN
       [allowed |-> TRUE, remaining |-> limiter.maxRequests - 1,
        resetTime |-> data.resetTime, total |-> limiter.maxRequests,
        store |-> storeSet(c, key, data)]
  ELSE IF limitExceeded(c[key].count, limiter.maxRequests)
  THEN [allowed |-> FALSE, remaining |-> 0,
        resetTime |-> c[key].resetTime, total |-> limiter.maxRequests,
        store |-> c]
  ELSE LET data == [c[key] EXCEPT !.count = @ + 1] IN
       [allowed |-> TRUE, remaining |-> limiter.maxRequests - data.count,
        resetTime |-> data.resetTime, total |-> limiter.maxRequests,
        store |-> storeSet(c, key, data)]

\* Math.ceil(x / 1000)
CeilSeconds(x) == 0 - ((0 - x) \div 1000)

NoResponse == [status |-> 0, limit |-> 0, remaining |-> 0, reset |-> 0, retryAfter |-> 0]

\* checkRateLimit: the 429 response of a denied check, null otherwise
checkRateLimit(result, t) ==
  IF ~result.allowed
  THEN [status |-> 429, limit |-> result.total, remaining |-> result.remaining,
        reset |-> result.resetTime, retryAfter |-> CeilSeconds(result.resetTime - t)]
  ELSE NoResponse

\* what one check does to the limiter's state; rlGranted and rlLast record
\* it for the properties: the allowed checks of the key's open window
\* before this check, and the window's end before it
RateCheck(limiter, h) ==
  LET key == keyOf(limiter, h)
      r == check(limiter, key, store, now)
      open == key \in DOMAIN rlGranted /\ ~(now > rlGranted[key].resetTime)
      before == IF open THEN rlGranted[key].n ELSE 0
      endBefore == IF open THEN rlGranted[key].resetTime ELSE NoTime
  IN /\ store' = r.store
     /\ rlLast' = [limiter |-> limiter, key |-> key, at |-> now,
                    entryBefore |-> storeGet(store, key),
                    grantedBefore |-> before, resetBefore |-> endBefore,
                    result |-> [allowed |-> r.allowed, remaining |-> r.remaining,
                                resetTime |-> r.resetTime, total |-> r.total],
                    response |-> checkRateLimit(r, now)]
     /\ rlGranted' =
          IF r.allowed
          THEN storeSet(rlGranted, key,
                 [n |-> before + 1,
                  resetTime |-> IF open THEN endBefore ELSE r.resetTime])
          ELSE rlGranted

\* ------------------------------------------------------------------ tables
\* a request body, as request.json() yields it
Body(phone, email, propertyType, bhk, budgetMin, budgetMax, status, notes, hasTags, tags, updatedAt) ==
  [phone |-> phone, email |-> email, propertyType |-> propertyType, bhk |-> bhk,
   budgetMin |-> budgetMin, budgetMax |-> budgetMax, status |-> status,
   notes |-> notes, hasTags |-> hasTags, tags |-> tags, updatedAt |-> updatedAt]

NoBody == Body(EmptyPhone, Absent, Absent, Absent, AbsentNum, AbsentNum, Absent, Absent, FALSE, <<>>, NoDate)

\* a row of buyers
Row(id, phone, email, propertyType, bhk, budgetMin, budgetMax, status, notes, tags, ownerId, updatedAt) ==
  [id |-> id, phone |-> phone, email |-> email, propertyType |-> propertyType, bhk |-> bhk,
   budgetMin |-> budgetMin, budgetMax |-> budgetMax, status |-> status,
   notes |-> notes, tags |-> tags, ownerId |-> ownerId, updatedAt |-> updatedAt]

NoRow == Row(NoId, EmptyPhone, Null, Absent, Null, NullNum, NullNum, Absent, Null, <<>>, NoUser, NoTime)

\* a row of buyer_history
HistoryRow(id, buyerId, changedBy, changedAt, diff) ==
  [id |-> id, buyerId |-> buyerId, changedBy |-> changedBy, changedAt |-> changedAt, diff |-> diff]

\* db.select().from(buyers).where(eq(buyers.id, id)).limit(1)
selectBuyer(id) ==
  IF \E b \in buyers : b.id = id THEN CHOOSE b \in buyers : b.id = id ELSE NoRow

\* currentBuyer.ownerId !== session.user.id, negated
isOwnerAnyUser(cur, who) == TRUE
isOwner(cur, who) == cur.ownerId = who

\* the keys Object.keys(validatedData) walks, updatedAt left out: a key the
\* body did not carry is not a key of the parsed value
DiffKeys == {"phone", "email", "propertyType", "bhk", "budgetMin", "budgetMax",
             "status", "notes", "tags"}

hasKey(d, k) ==
  CASE k \in {"budgetMin", "budgetMax"} -> d[k] # AbsentNum
    [] k \in {"phone", "propertyType", "tags"} -> TRUE
    [] OTHER -> d[k] # Absent

\* the diff of PUT: newValue !== oldValue over the keys of the parsed body,
\* taken before the empty strings are turned into null
diffAllSubmitted(d, cur) ==
  [k \in {j \in DiffKeys : hasKey(d, j)} |-> [old |-> cur[k], new |-> d[k]]]
computeDiff(d, cur) ==
  [k \in {j \in DiffKeys : hasKey(d, j) /\ d[j] # cur[j]} |->
     [old |-> cur[k], new |-> d[k]]]

\* "" -> null for email and notes; a key that is undefined is not set
setText(old, v) == IF v = "" THEN Null ELSE IF v = Absent THEN old ELSE v
setNum(old, v) == IF v = AbsentNum THEN old ELSE v

\* db.update(buyers).set({...updateData, updatedAt}) applied to a row
applyUpdate(r, d, stamp) ==
  [r EXCEPT !.phone = d.phone, !.email = setText(@, d.email),
            !.propertyType = d.propertyType, !.bhk = setText(@, d.bhk),
            !.budgetMin = setNum(@, d.budgetMin), !.budgetMax = setNum(@, d.budgetMax),
            !.status = setText(@, d.status), !.notes = setText(@, d.notes),
            !.tags = d.tags, !.updatedAt = stamp]

\* the row db.insert(buyers).values(buyerData) stores: generated id, the
\* column defaults (status "New", timestamps now()) and null for what is unset
insertedRow(id, d, owner, t) ==
  Row(id, d.phone, setText(Null, d.email), d.propertyType, setText(Null, d.bhk),
      setNum(NullNum, d.budgetMin), setNum(NullNum, d.budgetMax),
      setText("New", d.status), setText(Null, d.notes), d.tags, owner, t)

createdDiff == [created |-> [old |-> Null, new |-> "Lead created"]]
importedDiff == [imported |-> [old |-> Null, new |-> "Lead imported from CSV"]]

\* ----------------------------------------------------------------- CSV rows
\* a data row of an uploaded file as Papa.parse yields it: every value is a
\* string ("" for an empty cell); the phone is kept as for a body
CsvRow(phone, email, propertyType, bhk, budgetMin, budgetMax, notes, tags, status) ==
  [phone |-> phone, email |-> email, propertyType |-> propertyType, bhk |-> bhk,
   budgetMin |-> budgetMin, budgetMax |-> budgetMax, notes |-> notes,
   tags |-> tags, status |-> status]

expectedHeaders == {"fullName", "email", "phone", "city", "propertyType", "bhk",
                    "purpose", "budgetMin", "budgetMax", "timeline", "source",
                    "notes", "tags", "status"}

MaxImportRows == 200

\* "" in the place of a number
EmptyNum == 0 - 5

\* parseInt on the numerals the rows use; anything else has no leading digits
parseInt(str) ==
  CASE str = "0" -> 0 [] str = "1" -> 1 [] str = "2" -> 2 [] str = "3" -> 3
    [] OTHER -> NaN

\* parseCsvTags: split on commas, trim, drop the empty entries
parseCsvTags(tags) ==
  CASE tags = "vip" -> <<"vip">>
    [] tags = "vip, hot" -> <<"vip", "hot">>
    [] tags = "vip,,hot" -> <<"vip", "hot">>
    [] OTHER -> <<>>

\* transformedRow: x || "" for the texts, parseInt for a non-empty budget,
\* "New" for an empty status
transformedRow(row) ==
  [row EXCEPT !.budgetMin = IF row.budgetMin # "" THEN parseInt(row.budgetMin) ELSE EmptyNum,
              !.budgetMax = IF row.budgetMax # "" THEN parseInt(row.budgetMax) ELSE EmptyNum,
              !.status = IF row.status # "" THEN row.status ELSE "New"]

\* z.union([z.number().int().positive(), z.literal("")]).optional()
csvBudgetOK(n) == n = EmptyNum \/ n > 0

\* the value of csvBuyerSchema once its field transforms have run
\* ("" -> undefined)
csvTransformed(t) ==
  [t EXCEPT !.email = IF t.email = "" THEN Absent ELSE t.email,
            !.bhk = IF t.bhk = "" THEN Absent ELSE t.bhk,
            !.budgetMin = IF t.budgetMin = EmptyNum THEN AbsentNum ELSE t.budgetMin,
            !.budgetMax = IF t.budgetMax = EmptyNum THEN AbsentNum ELSE t.budgetMax,
            !.notes = IF t.notes = "" THEN Absent ELSE t.notes,
            !.tags = IF t.tags = "" THEN Absent ELSE t.tags]

csvBaseErrors(t) ==
  phoneIssues(t.phone)
  \cup (IF t.email = "" \/ t.email \in WellFormedEmails THEN {} ELSE {Issue("email", "invalid")})
  \cup (IF t.propertyType \in propertyTypeSchema THEN {} ELSE {Issue("propertyType", "invalid")})
  \cup (IF t.bhk = "" \/ t.bhk \in bhkSchema THEN {} ELSE {Issue("bhk", "invalid")})
  \cup (IF csvBudgetOK(t.budgetMin) THEN {} ELSE {Issue("budgetMin", "invalid")})
  \cup (IF csvBudgetOK(t.budgetMax) THEN {} ELSE {Issue("budgetMax", "invalid")})
  \cup (IF t.status \in statusSchema THEN {} ELSE {Issue("status", "invalid")})

\* csvBuyerSchema.parse(transformedRow): the issues it throws
csvBuyerErrors(t) ==
  IF csvBaseErrors(t) # {} THEN csvBaseErrors(t) ELSE RefineErrors(csvTransformed(t))

\* buyerData of a valid row: x || null, the parsed tags, the importing user
stagedRow(id, row, owner, t) ==
  LET v == csvTransformed(transformedRow(row)) IN
  Row(id, v.phone, setText(Null, v.email), v.propertyType, setText(Null, v.bhk),
      setNum(NullNum, v.budgetMin), setNum(NullNum, v.budgetMax), v.status,
      setText(Null, v.notes), parseCsvTags(IF v.tags = Absent THEN "" ELSE v.tags),
      owner, t)

\* an uploaded file
CsvFile(isCsv, headers, rows) == [isCsv |-> isCsv, headers |-> headers, rows |-> rows]

NoFile == CsvFile(FALSE, {}, <<>>)

\* missingHeaders: the expected headers the first row does not have
missingHeadersNone(file) == {}
missingHeaders(file) == expectedHeaders \ file.headers

NoResult == [totalRows |-> 0, validRows |-> 0, errorRows |-> 0, importedIds |-> {}]

\* ------------------------------------------ route protection and sessions
\* a pathname or a prefix, as the sequence of its characters
RootPath == <<"/">>
BuyersPath == <<"/", "b", "u", "y", "e", "r", "s">>
NewBuyerPath == <<"/", "b", "u", "y", "e", "r", "s", "/", "n", "e", "w">>
ApiBuyersPath == <<"/", "a", "p", "i", "/", "b", "u", "y", "e", "r", "s">>
ApiAuthPath == <<"/", "a", "p", "i", "/", "a", "u", "t", "h", "/", "s", "e", "s", "s", "i", "o", "n">>
SignInPath == <<"/", "a", "u", "t", "h", "/", "s", "i", "g", "n", "i", "n">>
NextDataPath == <<"/", "_", "n", "e", "x", "t", "/", "d", "a", "t", "a">>
NextStaticPath == <<"/", "_", "n", "e", "x", "t", "/", "s", "t", "a", "t", "i", "c">>
FaviconPath == <<"/", "f", "a", "v", "i", "c", "o", "n", ".", "i", "c", "o">>
PublicationsPath == <<"/", "p", "u", "b", "l", "i", "c", "a", "t", "i", "o", "n", "s">>
Paths ==
  {RootPath, BuyersPath, NewBuyerPath, ApiBuyersPath, ApiAuthPath, SignInPath,
   NextDataPath, NextStaticPath, FaviconPath, PublicationsPath}
NoPath == <<>>

\* String.prototype.startsWith
startsWith(s, prefix) == Len(s) >= Len(prefix) /\ SubSeq(s, 1, Len(prefix)) = prefix

\* the dot of a regular expression
AnyChar == "<any>"
\* a pattern of plain characters and dots matches at the start of s
matchesAtStart(s, pat) ==
  Len(s) >= Len(pat) /\ \A i \in 1..Len(pat) : pat[i] = AnyChar \/ pat[i] = s[i]

\* the alternatives of the negative lookahead of config.matcher
matcherExclusions ==
  {<<"a", "p", "i", "/", "a", "u", "t", "h">>,
   <<"_", "n", "e", "x", "t", "/", "s", "t", "a", "t", "i", "c">>,
   <<"_", "n", "e", "x", "t", "/", "i", "m", "a", "g", "e">>,
   <<"f", "a", "v", "i", "c", "o", "n", AnyChar, "i", "c", "o">>,
   <<"p", "u", "b", "l", "i", "c">>}

\* config.matcher: the middleware runs for the paths "/" + anything that
\* does not start with one of the exclusions
matcher(pathname) ==
  /\ Len(pathname) >= 1 /\ pathname[1] = "/"
  /\ \A pat \in matcherExclusions : ~matchesAtStart(Tail(pathname), pat)

\* the session cookie of a request: a session token, or none
NoCookie == 0 - 6

\* responses of the middleware
PassThrough == [kind |-> "next", location |-> NoPath, callbackUrl |-> NoPath]
Redirect(to, callbackUrl) == [kind |-> "redirect", location |-> to, callbackUrl |-> callbackUrl]

\* the public paths of the middleware
isPublicPath(pathname) ==
  \/ startsWith(pathname, <<"/", "a", "u", "t", "h">>)
  \/ startsWith(pathname, <<"/", "a", "p", "i">>)
  \/ startsWith(pathname, <<"/", "_", "n", "e", "x", "t">>)
  \/ startsWith(pathname, <<"/", "f", "a", "v", "i", "c", "o", "n">>)
  \/ pathname = RootPath

middleware(pathname, sessionToken) ==
  IF isPublicPath(pathname) THEN PassThrough
  ELSE IF sessionToken = NoCookie THEN Redirect(SignInPath, pathname)
  ELSE PassThrough

\* what the client gets back from the routing layer: the middleware's answer
\* where config.matcher selects the path, the route itself elsewhere
routed(pathname, sessionToken) ==
  IF matcher(pathname) THEN middleware(pathname, sessionToken) ELSE PassThrough

\* rows of users and sessions
UserRow(id, email, emailVerified) == [id |-> id, email |-> email, emailVerified |-> emailVerified]
SessionRow(sessionToken, userId, expires) ==
  [sessionToken |-> sessionToken, userId |-> userId, expires |-> expires]

\* adapter.getSessionAndUser: sessions joined with users on the token
NoSessionAndUser == [session |-> SessionRow(NoCookie, NoId, NoTime), user |-> UserRow(NoId, Absent, NoTime)]
getSessionAndUser(sessionToken, ss, us) ==
  LET found == {x \in ss : x.sessionToken = sessionToken}
      joined == {j \in {[session |-> x, user |-> u] : x \in found, u \in us} :
                   j.session.userId = j.user.id}
  IN IF joined = {} THEN NoSessionAndUser ELSE CHOOSE j \in joined : TRUE

\* getCustomSession: the session of a request's cookie, null as NoCustomSession
NoCustomSession == [userId |-> NoId, expires |-> NoTime]
getCustomSession(sessionToken, ss, us, t) ==
  IF sessionToken = NoCookie THEN NoCustomSession
  ELSE LET sessionAndUser == getSessionAndUser(sessionToken, ss, us) IN
       IF sessionAndUser = NoSessionAndUser THEN NoCustomSession
       ELSE IF sessionAndUser.session.expires < t THEN NoCustomSession
       ELSE [userId |-> sessionAndUser.user.id, expires |-> sessionAndUser.session.expires]

NoMiddlewareRequest ==
  [at |-> NoTime, pathname |-> NoPath, cookie |-> NoCookie, response |-> PassThrough]

\* ------------------------------------------------------ custom verification
\* lifetimes of a verification token (24 hours) and of a session (30 days).
\* They are counted in seconds, 30 days of milliseconds being more than the
\* integers of the checker hold: where sessions and tokens are involved the
\* clock now counts seconds, and only sums and comparisons of times are taken
TokenTtl == 24 * 60 * 60
SessionTtl == 30 * 24 * 60 * 60

Emails == {"a@x.in", "b@x.in"}
NoToken == 0 - 7
Verifs == {"v1", "v2"}

TokenData(email, expires, used) == [email |-> email, expires |-> expires, used |-> used]

\* cleanupExpiredTokens: drop the expired and the used tokens
cleanupExpiredTokens(s, t) ==
  [k \in {j \in DOMAIN s : ~(t > s[j].expires \/ s[j].used)} |-> s[k]]

\* tokenData.used = true, on the object the Map holds
markUsedForgotten(s, token) == s
markUsed(s, token) == [s EXCEPT ![token].used = TRUE]

tokenDelete(s, token) == [k \in DOMAIN s \ {token} |-> s[k]]

\* a GET /api/auth/custom-verify request
IdleVerif ==
  [pc |-> "idle", token |-> NoToken, email |-> Absent, valid |-> FALSE,
   found |-> NoId, stamp |-> NoTime, userId |-> NoId, sessionToken |-> NoCookie,
   sessionExpires |-> NoTime, status |-> 0, cookie |-> NoCookie, fault |-> FALSE]

\* ------------------------------------------------------------------ signup
\* the body of a signup request, its name by its length
SignupBody(nameLen, email) == [nameLen |-> nameLen, email |-> email]

\* signupSchema.parse: name of 2 to 80 characters, email well formed
signupErrors(b) ==
  (IF b.nameLen < 2 \/ b.nameLen > 80 THEN {Issue("name", "invalid")} ELSE {})
  \cup (IF b.email \in WellFormedEmails THEN {} ELSE {Issue("email", "invalid")})

VerificationTokenRow(identifier, token, expires) ==
  [identifier |-> identifier, token |-> token, expires |-> expires]

\* a POST /api/auth/signup request
Signups == {"s1", "s2"}
IdleSignup ==
  [pc |-> "idle", email |-> Absent, userId |-> NoId, token |-> NoToken,
   status |-> 0, message |-> "", mailed |-> FALSE, fault |-> FALSE]

\* a request to the route that sends the verification email
NoMail == [at |-> NoTime, email |-> Absent, token |-> NoToken, sent |-> FALSE, status |-> 0]

\* ----------------------------------------------------------------- adapter
\* the id of the user object createUser hands back, "pending"
PendingId == 0 - 8

\* user || null and session || null of the adapter's selects
NoUserRow == UserRow(NoId, Absent, NoTime)
NoSessionRow == SessionRow(NoCookie, NoId, NoTime)
NoVerificationToken == VerificationTokenRow(Absent, NoToken, NoTime)

\* adapter.getUser and adapter.getUserByEmail
getUser(id, us) ==
  IF \E u \in us : u.id = id THEN CHOOSE u \in us : u.id = id ELSE NoUserRow
getUserByEmail(email, us) ==
  IF \E u \in us : u.email = email THEN CHOOSE u \in us : u.email = email ELSE NoUserRow

\* a call of an adapter method: its arguments, what it returned (null as
\* the No... rows) and whether it threw
NoCall ==
  [method |-> "none", at |-> NoTime, email |-> Absent, token |-> NoToken,
   user |-> NoUserRow, session |-> NoSessionRow, verificationToken |-> NoVerificationToken,
   threw |-> FALSE]
Called(method, email, token) ==
  [NoCall EXCEPT !.method = method, !.at = now, !.email = email, !.token = token]

\* a POST /api/auth/logout request
NoLogout == [pc |-> "idle", at |-> NoTime, cookie |-> NoCookie, status |-> 0, fault |-> FALSE]

\* ------------------------------------------------------------------ export
\* the limit the export route passes, and the largest buyerFiltersSchema takes
ExportLimit == 10000
FilterLimitMax == 50
sortByEnum == {"fullName", "phone", "city", "propertyType", "status", "updatedAt"}
sortOrderEnum == {"asc", "desc"}

\* the query parameters of an export request; x || undefined, and the
\* defaults of sortBy and sortOrder
Query(propertyType, status, sortBy, sortOrder) ==
  [propertyType |-> propertyType, status |-> status, sortBy |-> sortBy, sortOrder |-> sortOrder]
exportFilters(q) ==
  [page |-> 1, limit |-> ExportLimit,
   propertyType |-> IF q.propertyType = "" THEN Absent ELSE q.propertyType,
   status |-> IF q.status = "" THEN Absent ELSE q.status,
   sortBy |-> IF q.sortBy = "" THEN "updatedAt" ELSE q.sortBy,
   sortOrder |-> IF q.sortOrder = "" THEN "desc" ELSE q.sortOrder]

\* buyerFiltersSchema.parse: the issues it throws
buyerFiltersErrors(f) ==
  (IF f.page > 0 THEN {} ELSE {Issue("page", "too_small")})
  \cup (IF f.limit > 0 THEN {} ELSE {Issue("limit", "too_small")})
  \cup (IF f.limit <= FilterLimitMax THEN {} ELSE {Issue("limit", "too_big")})
  \cup (IF f.propertyType = Absent \/ f.propertyType \in propertyTypeSchema
        THEN {} ELSE {Issue("propertyType", "invalid")})
  \cup (IF f.status = Absent \/ f.status \in statusSchema THEN {} ELSE {Issue("status", "invalid")})
  \cup (IF f.sortBy \in sortByEnum THEN {} ELSE {Issue("sortBy", "invalid")})
  \cup (IF f.sortOrder \in sortOrderEnum THEN {} ELSE {Issue("sortOrder", "invalid")})

\* the where clause: the conjunction of the filters that are set
whereClause(f, b) ==
  /\ f.propertyType = Absent \/ b.propertyType = f.propertyType
  /\ f.status = Absent \/ b.status = f.status

\* the position of a status in statusEnum, by which the column sorts
statusRank(st) ==
  CASE st = "New" -> 1 [] st = "Qualified" -> 2 [] st = "Contacted" -> 3
    [] st = "Visited" -> 4 [] st = "Negotiation" -> 5 [] st = "Converted" -> 6
    [] OTHER -> 7

\* the sort key of orderClause; the columns the rows of the model carry
sortKey(f, b) == IF f.sortBy = "status" THEN statusRank(b.status) ELSE b.updatedAt

inOrder(f, a, b) ==
  IF f.sortOrder = "asc" THEN sortKey(f, a) <= sortKey(f, b) ELSE sortKey(f, a) >= sortKey(f, b)

\* the row lists select ... where ... order by may return: every matching
\* row once, in the order of the sort key, ties in any order
selectOrdered(f, rows) ==
  LET match == {b \in rows : whereClause(f, b)}
      n == Cardinality(match)
  IN {l \in [1..n -> match] :
        /\ \A i, j \in 1..n : i # j => l[i] # l[j]
        /\ \A i, j \in 1..n : i < j => inOrder(f, l[i], l[j])}

NoExport ==
  [at |-> NoTime, who |-> NoUser, query |-> Query("", "", "", ""), matching |-> {},
   status |-> 0, attachment |-> FALSE, rows |-> <<>>, fault |-> FALSE]

\* ---------------------------------------------------------------- requests
Idle ==
  [pc |-> "idle", seq |-> 0, op |-> "none", who |-> NoUser, id |-> NoId, data |-> NoBody,
   cur |-> NoRow, diff |-> <<>>, stamp |-> NoTime, staged |-> <<>>,
   status |-> 0, errors |-> {}, currentUpdatedAt |-> NoTime, out |-> NoRow,
   histId |-> NoId, importErrors |-> {}, result |-> NoResult, file |-> NoFile]

Free(p) == procs[p].pc \in {"idle", "done"} /\ nreq < MaxReqs

\* a new request; seq numbers the requests in the order they arrive
Started(op, who, id) == [Idle EXCEPT !.seq = nreq + 1, !.op = op, !.who = who, !.id = id]

\* a response ends the request
Respond(r, status) == [r EXCEPT !.pc = "done", !.status = status]

Init ==
  /\ now = 1
  /\ ticks = 0
  /\ buyers = {}
  /\ history = {}
  /\ nextId = 1
  /\ nreq = 0
  /\ procs = [p \in Procs |-> Idle]
  /\ store = <<>>
  /\ rlLast = [limiter |-> apiRateLimiter, key |-> "", at |-> NoTime,
               entryBefore |-> NoEntry,
               grantedBefore |-> 0, resetBefore |-> NoTime,
               result |-> [allowed |-> TRUE, remaining |-> 0, resetTime |-> NoTime, total |-> 0],
               response |-> NoResponse]
  /\ rlGranted = <<>>
  /\ users = {}
  /\ sessions = {}
  /\ customTokenStore = <<>>
  /\ verifs = [v \in Verifs |-> IdleVerif]
  /\ mwLast = NoMiddlewareRequest
  /\ exLast = NoExport
  /\ verificationTokens = {}
  /\ signups = [s \in Signups |-> IdleSignup]
  /\ mailLast = NoMail
  /\ adLast = NoCall
  /\ loLast = NoLogout

\* time passes
Tick(d) ==
  /\ ticks < MaxTicks
  /\ now' = now + d
  /\ ticks' = ticks + 1
  /\ UNCHANGED <<auxVars, buyers, history, nextId, nreq, procs, store, rlLast, rlGranted>>

\* ------------------------------------------------------- POST /api/buyers
\* up to the insert: the limiter check, the session, createBuyerSchema.parse
PostBegin(p, who, h, body) ==
  LET r == check(buyerMutationRateLimiter, keyOf(buyerMutationRateLimiter, h), store, now)
      req == Started("POST", who, NoId)
  IN /\ Free(p)
     /\ nreq' = nreq + 1
     /\ RateCheck(buyerMutationRateLimiter, h)
     /\ procs' = [procs EXCEPT ![p] =
          IF ~r.allowed THEN Respond(req, 429)
          ELSE IF who = NoUser THEN Respond(req, 401)
          ELSE IF createBuyerErrors(body) # {}
          THEN Respond([req EXCEPT !.data = body, !.errors = createBuyerErrors(body)], 400)
          ELSE [req EXCEPT !.pc = "post_insert", !.data = createBuyerParsed(body)]]
     /\ UNCHANGED <<auxVars, now, ticks, buyers, history, nextId>>

\* db.insert(buyers).values(buyerData).returning()
PostInsert(p, ok) ==
  LET r == procs[p]
      row == insertedRow(nextId, r.data, r.who, now)
  IN /\ r.pc = "post_insert"
     /\ IF ok
        THEN /\ buyers' = buyers \cup {row}
             /\ nextId' = nextId + 1
             /\ procs' = [procs EXCEPT ![p] = [r EXCEPT !.pc = "post_history", !.out = row, !.id = row.id]]
        ELSE /\ procs' = [procs EXCEPT ![p] = Respond(r, 500)]
             /\ UNCHANGED <<buyers, nextId>>
     /\ UNCHANGED <<auxVars, now, ticks, history, nreq, store, rlLast, rlGranted>>

\* db.insert(buyerHistory).values({... diff: {created: ...}}); the foreign
\* key on buyer_id rejects the row when the buyer is gone
PostHistoryAlone(p, ok) ==
  LET r == procs[p] IN
  /\ r.pc = "post_history"
  /\ procs' = [procs EXCEPT ![p] = Respond(r, 201)]
  /\ UNCHANGED <<auxVars, now, ticks, buyers, history, nextId, nreq, store, rlLast, rlGranted>>
PostHistory(p, ok) ==
  LET r == procs[p] IN
  /\ r.pc = "post_history"
  /\ IF ok /\ (\E b \in buyers : b.id = r.id)
     THEN /\ history' = history \cup {HistoryRow(nextId, r.id, r.who, now, createdDiff)}
          /\ nextId' = nextId + 1
          /\ procs' = [procs EXCEPT ![p] = Respond([r EXCEPT !.histId = nextId], 201)]
     ELSE /\ procs' = [procs EXCEPT ![p] = Respond(r, 500)]
          /\ UNCHANGED <<history, nextId>>
  /\ UNCHANGED <<auxVars, now, ticks, buyers, nreq, store, rlLast, rlGranted>>

\* --------------------------------------------------- PUT /api/buyers/{id}
\* up to the update statement: session, updateBuyerSchema.parse, the select,
\* the ownership and the updatedAt checks, the diff and new Date()
PutBegin(p, who, id, body) ==
  LET req == Started("PUT", who, id)
      d == updateBuyerParsed(body)
      cur == selectBuyer(id)
  IN /\ Free(p)
     /\ nreq' = nreq + 1
     /\ procs' = [procs EXCEPT ![p] =
          IF who = NoUser THEN Respond(req, 401)
          ELSE IF updateBuyerErrors(body) # {}
          THEN Respond([req EXCEPT !.data = body, !.errors = updateBuyerErrors(body)], 400)
          ELSE IF cur = NoRow THEN Respond([req EXCEPT !.data = d], 404)
          ELSE IF ~isOwner(cur, who) THEN Respond([req EXCEPT !.data = d, !.cur = cur], 403)
          ELSE IF d.updatedAt.kind # "absent" /\ d.updatedAt.t # cur.updatedAt
          THEN Respond([req EXCEPT !.data = d, !.cur = cur,
                                   !.currentUpdatedAt = cur.updatedAt], 409)
          ELSE [req EXCEPT !.pc = "put_update", !.data = d, !.cur = cur,
                           !.diff = computeDiff(d, cur), !.stamp = now]]
     /\ UNCHANGED <<auxVars, now, ticks, buyers, history, nextId, store, rlLast, rlGranted>>

\* db.update(buyers).set(...).where(eq(buyers.id, buyerId)).returning()
PutUpdate(p, ok) ==
  LET r == procs[p]
      updated == IF selectBuyer(r.id) = NoRow THEN NoRow
                 ELSE applyUpdate(selectBuyer(r.id), r.data, r.stamp)
  IN /\ r.pc = "put_update"
     /\ IF ok
        THEN /\ buyers' = {IF b.id = r.id THEN updated ELSE b : b \in buyers}
             /\ procs' = [procs EXCEPT ![p] =
                  IF DOMAIN r.diff = {} THEN Respond([r EXCEPT !.out = updated], 200)
                  ELSE [r EXCEPT !.pc = "put_history", !.out = updated]]
        ELSE /\ procs' = [procs EXCEPT ![p] = Respond(r, 500)]
             /\ UNCHANGED buyers
     /\ UNCHANGED <<auxVars, now, ticks, history, nextId, nreq, store, rlLast, rlGranted>>

\* db.insert(buyerHistory).values({... diff})
PutHistory(p, ok) ==
  LET r == procs[p] IN
  /\ r.pc = "put_history"
  /\ IF ok /\ (\E b \in buyers : b.id = r.id)
     THEN /\ history' = history \cup {HistoryRow(nextId, r.id, r.who, now, r.diff)}
          /\ nextId' = nextId + 1
          /\ procs' = [procs EXCEPT ![p] = Respond([r EXCEPT !.histId = nextId], 200)]
     ELSE /\ procs' = [procs EXCEPT ![p] = Respond(r, 500)]
          /\ UNCHANGED <<history, nextId>>
  /\ UNCHANGED <<auxVars, now, ticks, buyers, nreq, store, rlLast, rlGranted>>

\* ------------------------------------------------ DELETE /api/buyers/{id}
DeleteBegin(p, who, id) ==
  LET req == Started("DELETE", who, id)
      cur == selectBuyer(id)
  IN /\ Free(p)
     /\ nreq' = nreq + 1
     /\ procs' = [procs EXCEPT ![p] =
          IF who = NoUser THEN Respond(req, 401)
          ELSE IF cur = NoRow THEN Respond(req, 404)
          ELSE IF ~isOwner(cur, who) THEN Respond([req EXCEPT !.cur = cur], 403)
          ELSE [req EXCEPT !.pc = "delete_exec", !.cur = cur]]
     /\ UNCHANGED <<auxVars, now, ticks, buyers, history, nextId, store, rlLast, rlGranted>>

\* db.delete(buyers).where(eq(buyers.id, buyerId)); ON DELETE CASCADE takes
\* the buyer's history rows with it
DeleteExecNoCascade(p, ok) ==
  LET r == procs[p] IN
  /\ r.pc = "delete_exec"
  /\ IF ok
     THEN /\ buyers' = {b \in buyers : b.id # r.id}
          /\ procs' = [procs EXCEPT ![p] = Respond(r, 200)]
     ELSE /\ procs' = [procs EXCEPT ![p] = Respond(r, 500)]
          /\ UNCHANGED buyers
  /\ UNCHANGED <<auxVars, now, ticks, history, nextId, nreq, store, rlLast, rlGranted>>
DeleteExec(p, ok) ==
  LET r == procs[p] IN
  /\ r.pc = "delete_exec"
  /\ IF ok
     THEN /\ buyers' = {b \in buyers : b.id # r.id}
          /\ history' = {x \in history : x.buyerId # r.id}
          /\ procs' = [procs EXCEPT ![p] = Respond(r, 200)]
     ELSE /\ procs' = [procs EXCEPT ![p] = Respond(r, 500)]
          /\ UNCHANGED <<buyers, history>>
  /\ UNCHANGED <<auxVars, now, ticks, nextId, nreq, store, rlLast, rlGranted>>

\* --------------------------------------------------- GET /api/buyers/{id}
\* the session and the select of the buyer
GetBegin(p, who, id) ==
  LET req == Started("GET", who, id)
      cur == selectBuyer(id)
  IN /\ Free(p)
     /\ nreq' = nreq + 1
     /\ procs' = [procs EXCEPT ![p] =
          IF who = NoUser THEN Respond(req, 401)
          ELSE IF cur = NoRow THEN Respond(req, 404)
          ELSE [req EXCEPT !.pc = "get_history", !.cur = cur]]
     /\ UNCHANGED <<auxVars, now, ticks, buyers, history, nextId, store, rlLast, rlGranted>>

\* the select of the buyer's history, then the response {buyer, history}
GetHistory(p, ok) ==
  LET r == procs[p] IN
  /\ r.pc = "get_history"
  /\ procs' = [procs EXCEPT ![p] =
       IF ok THEN Respond([r EXCEPT !.out = r.cur], 200) ELSE Respond(r, 500)]
  /\ UNCHANGED <<auxVars, now, ticks, buyers, history, nextId, nreq, store, rlLast, rlGranted>>

\* ------------------------------------------------ POST /api/buyers/import
\* the positions of the rows that pass csvBuyerSchema
ValidPositions(rows) == {i \in 1..Len(rows) : csvBuyerErrors(transformedRow(rows[i])) = {}}

\* the number of valid rows among the first i
RECURSIVE ValidUpTo(_, _)
ValidUpTo(rows, i) ==
  IF i = 0 THEN 0
  ELSE ValidUpTo(rows, i - 1) + (IF i \in ValidPositions(rows) THEN 1 ELSE 0)

\* validRows: the staged buyerData in file order, each with its own uuid
RECURSIVE StageRows(_, _, _, _, _)
StageRows(rows, i, firstId, owner, t) ==
  IF i = 0 THEN <<>>
  ELSE IF i \in ValidPositions(rows)
  THEN Append(StageRows(rows, i - 1, firstId, owner, t),
              stagedRow(firstId + ValidUpTo(rows, i - 1), rows[i], owner, t))
  ELSE StageRows(rows, i - 1, firstId, owner, t)

\* errors: one entry per issue of a failing row; data row i is reported as
\* row i + 1
RowErrors(rows) ==
  UNION {{[row |-> i + 1, field |-> e.path, code |-> e.code] :
            e \in csvBuyerErrors(transformedRow(rows[i]))} : i \in 1..Len(rows)}

\* up to the bulk insert: session, the file checks, and the validation loop
ImportBegin(p, who, file) ==
  LET req == [Started("IMPORT", who, NoId) EXCEPT !.file = file]
      rows == file.rows
      staged == StageRows(rows, Len(rows), nextId, who, now)
      errs == RowErrors(rows)
      res == [totalRows |-> Len(rows), validRows |-> Len(staged),
              errorRows |-> Cardinality(errs), importedIds |-> {}]
  IN /\ Free(p)
     /\ nreq' = nreq + 1
     /\ procs' = [procs EXCEPT ![p] =
          IF who = NoUser THEN Respond(req, 401)
          ELSE IF ~file.isCsv THEN Respond(req, 400)
          ELSE IF Len(rows) = 0 THEN Respond(req, 400)
          ELSE IF Len(rows) > MaxImportRows THEN Respond(req, 400)
          ELSE IF missingHeaders(file) # {} THEN Respond(req, 400)
          ELSE IF Len(staged) = 0
          THEN Respond([req EXCEPT !.importErrors = errs, !.result = res], 200)
          ELSE [req EXCEPT !.pc = "import_insert", !.staged = staged,
                           !.importErrors = errs, !.result = res]]
     /\ nextId' = IF who # NoUser /\ file.isCsv /\ Len(rows) > 0 /\ Len(rows) <= MaxImportRows
                     /\ missingHeaders(file) = {}
                  THEN nextId + Len(staged) ELSE nextId
     /\ UNCHANGED <<auxVars, now, ticks, buyers, history, store, rlLast, rlGranted>>

\* db.insert(buyers).values(validRows).returning({id})
ImportInsert(p, ok) ==
  LET r == procs[p]
      rows == {r.staged[i] : i \in 1..Len(r.staged)}
  IN /\ r.pc = "import_insert"
     /\ IF ok
        THEN /\ buyers' = buyers \cup rows
             /\ procs' = [procs EXCEPT ![p] = [r EXCEPT !.pc = "import_history"]]
        ELSE /\ procs' = [procs EXCEPT ![p] = Respond(r, 500)]
             /\ UNCHANGED buyers
     /\ UNCHANGED <<auxVars, now, ticks, history, nextId, nreq, store, rlLast, rlGranted>>

\* db.insert(buyerHistory).values(historyEntries): one "imported" entry per
\* inserted buyer, in one statement
ImportHistory(p, ok) ==
  LET r == procs[p]
      n == Len(r.staged)
      ids == {r.staged[i].id : i \in 1..n}
  IN /\ r.pc = "import_history"
     /\ IF ok /\ (\A i \in ids : \E b \in buyers : b.id = i)
        THEN /\ history' = history \cup
                  {HistoryRow(nextId + i - 1, r.staged[i].id, r.who, now, importedDiff) : i \in 1..n}
             /\ nextId' = nextId + n
             /\ procs' = [procs EXCEPT ![p] =
                  Respond([r EXCEPT !.result = [@ EXCEPT !.importedIds = ids]], 200)]
        ELSE /\ procs' = [procs EXCEPT ![p] = Respond(r, 500)]
             /\ UNCHANGED <<history, nextId>>
     /\ UNCHANGED <<auxVars, now, ticks, buyers, nreq, store, rlLast, rlGranted>>

\* ------------------------------------------------------- the limiter alone
\* a request that only passes through checkRateLimit
Check(limiter, h) ==
  /\ nreq < MaxChecks
  /\ nreq' = nreq + 1
  /\ RateCheck(limiter, h)
  /\ UNCHANGED <<auxVars, now, ticks, buyers, history, nextId, procs>>

\* ------------------------------------------------------------- middleware
\* a request for a page or a route passes the routing layer
Middleware(pathname, cookie) ==
  /\ nreq < MaxAuthReqs
  /\ nreq' = nreq + 1
  /\ mwLast' = [at |-> now, pathname |-> pathname, cookie |-> cookie,
                response |-> routed(pathname, cookie)]
  /\ UNCHANGED <<acctVars, now, ticks, buyers, history, nextId, procs, store, rlLast, rlGranted>>
  /\ UNCHANGED <<users, sessions, customTokenStore, verifs, exLast>>

\* ------------------------------------------- /api/auth/custom-verify
\* POST: issue a token for an email
VerifyPost(email) ==
  /\ nreq < MaxAuthReqs
  /\ nreq' = nreq + 1
  /\ IF email = Absent
     THEN UNCHANGED <<customTokenStore, nextId>>
     ELSE /\ customTokenStore' =
               LET c == cleanupExpiredTokens(customTokenStore, now)
               IN [k \in DOMAIN c \cup {nextId} |->
                     IF k = nextId THEN TokenData(email, now + TokenTtl, FALSE) ELSE c[k]]
          /\ nextId' = nextId + 1
  /\ UNCHANGED <<acctVars, now, ticks, buyers, history, procs, store, rlLast, rlGranted>>
  /\ UNCHANGED <<users, sessions, verifs, mwLast, exLast>>

\* GET, up to the first awaited statement: the checks of the token, which
\* run without interruption, and the marking of the token as used
VerifyBegin(v, token, email) ==
  LET c == cleanupExpiredTokens(customTokenStore, now)
      valid == /\ token \in DOMAIN customTokenStore
               /\ customTokenStore[token].email = email
               /\ ~(now > customTokenStore[token].expires)
               /\ ~customTokenStore[token].used
      req == [IdleVerif EXCEPT !.token = token, !.email = email, !.valid = valid]
      reject == [req EXCEPT !.pc = "done", !.status = 400]
  IN /\ verifs[v].pc = "idle"
     /\ nreq < MaxAuthReqs
     /\ nreq' = nreq + 1
     /\ IF token = NoToken \/ email = Absent
        THEN verifs' = [verifs EXCEPT ![v] = reject] /\ UNCHANGED customTokenStore
        ELSE IF token \notin DOMAIN c
        THEN verifs' = [verifs EXCEPT ![v] = reject] /\ customTokenStore' = c
        ELSE IF c[token].email # email
        THEN verifs' = [verifs EXCEPT ![v] = reject] /\ customTokenStore' = c
        ELSE IF now > c[token].expires
        THEN verifs' = [verifs EXCEPT ![v] = reject] /\ customTokenStore' = tokenDelete(c, token)
        ELSE IF c[token].used
        THEN verifs' = [verifs EXCEPT ![v] = reject] /\ customTokenStore' = c
        ELSE /\ verifs' = [verifs EXCEPT ![v] = [req EXCEPT !.pc = "select"]]
             /\ customTokenStore' = markUsed(c, token)
     /\ UNCHANGED <<acctVars, now, ticks, buyers, history, nextId, procs, store, rlLast, rlGranted>>
     /\ UNCHANGED <<users, sessions, mwLast, exLast>>

\* select the user of the email; the new Date() of the statement that follows
VerifySelect(v, ok) ==
  LET r == verifs[v]
      found == {u \in users : u.email = r.email}
  IN /\ r.pc = "select"
     /\ verifs' = [verifs EXCEPT ![v] =
          IF ~ok THEN [r EXCEPT !.pc = "done", !.status = 500, !.fault = TRUE]
          ELSE [r EXCEPT !.pc = "upsert", !.stamp = now,
                         !.found = IF found = {} THEN NoId ELSE (CHOOSE u \in found : TRUE).id]]
     /\ UNCHANGED <<acctVars, now, ticks, buyers, history, nextId, nreq, procs, store, rlLast, rlGranted>>
     /\ UNCHANGED <<users, sessions, customTokenStore, mwLast, exLast>>

\* insert the user, or update its emailVerified; users.email is unique
VerifyUpsert(v, ok) ==
  LET r == verifs[v]
      taken == \E u \in users : u.email = r.email
      done500 == [r EXCEPT !.pc = "done", !.status = 500]
  IN /\ r.pc = "upsert"
     /\ IF ~ok
        THEN /\ verifs' = [verifs EXCEPT ![v] = [done500 EXCEPT !.fault = TRUE]]
             /\ UNCHANGED <<users, nextId>>
        ELSE IF r.found = NoId /\ taken
        THEN /\ verifs' = [verifs EXCEPT ![v] = done500]
             /\ UNCHANGED <<users, nextId>>
        ELSE IF r.found = NoId
        THEN /\ users' = users \cup {UserRow(nextId, r.email, r.stamp)}
             /\ verifs' = [verifs EXCEPT ![v] =
                  [r EXCEPT !.pc = "session", !.userId = nextId, !.sessionToken = nextId + 1,
                            !.sessionExpires = now + SessionTtl]]
             /\ nextId' = nextId + 2
        ELSE /\ users' = {IF u.id = r.found THEN [u EXCEPT !.emailVerified = r.stamp] ELSE u :
                           u \in users}
             /\ verifs' = [verifs EXCEPT ![v] =
                  [r EXCEPT !.pc = "session", !.userId = r.found, !.sessionToken = nextId,
                            !.sessionExpires = now + SessionTtl]]
             /\ nextId' = nextId + 1
     /\ UNCHANGED <<acctVars, now, ticks, buyers, history, nreq, procs, store, rlLast, rlGranted>>
     /\ UNCHANGED <<sessions, customTokenStore, mwLast, exLast>>

\* adapter.createSession, the removal of the token, the response and its cookie
VerifySession(v, ok) ==
  LET r == verifs[v] IN
  /\ r.pc = "session"
  /\ IF ~ok
     THEN /\ verifs' = [verifs EXCEPT ![v] = [r EXCEPT !.pc = "done", !.status = 500, !.fault = TRUE]]
          /\ UNCHANGED <<sessions, customTokenStore>>
     ELSE /\ sessions' = sessions \cup {SessionRow(r.sessionToken, r.userId, r.sessionExpires)}
          /\ customTokenStore' = tokenDelete(customTokenStore, r.token)
          /\ verifs' = [verifs EXCEPT ![v] =
               [r EXCEPT !.pc = "done", !.status = 200, !.cookie = r.sessionToken]]
  /\ UNCHANGED <<acctVars, now, ticks, buyers, history, nextId, nreq, procs, store, rlLast, rlGranted>>
  /\ UNCHANGED <<users, mwLast, exLast>>

\* ------------------------------------------------- GET /api/buyers/export
ExportGet(who, q, ok) ==
  LET f == exportFilters(q)
      req == [NoExport EXCEPT !.at = now, !.who = who, !.query = q,
                              !.matching = {b \in buyers : whereClause(f, b)}]
  IN /\ nreq < MaxReqs
     /\ nreq' = nreq + 1
     /\ IF who = NoUser THEN exLast' = [req EXCEPT !.status = 401]
        ELSE IF buyerFiltersErrors(f) # {} THEN exLast' = [req EXCEPT !.status = 400]
        ELSE IF ~ok THEN exLast' = [req EXCEPT !.status = 500, !.fault = TRUE]
        ELSE \E l \in selectOrdered(f, buyers) :
               exLast' = IF Len(l) = 0 THEN [req EXCEPT !.status = 404]
                         ELSE [req EXCEPT !.status = 200, !.attachment = TRUE, !.rows = l]
     /\ UNCHANGED <<acctVars, now, ticks, buyers, history, nextId, procs, store, rlLast, rlGranted>>
     /\ UNCHANGED <<users, sessions, customTokenStore, verifs, mwLast>>

\* -------------------------------------------------- POST /api/auth/signup
\* signupSchema.parse and the select of the user with the email
SignupBegin(s, body, ok) ==
  LET req == [IdleSignup EXCEPT !.email = body.email]
      existingUser == {u \in users : u.email = body.email}
  IN /\ signups[s].pc \in {"idle", "done"}
     /\ nreq < MaxAuthReqs
     /\ nreq' = nreq + 1
     /\ signups' = [signups EXCEPT ![s] =
          IF signupErrors(body) # {}
          THEN [req EXCEPT !.pc = "done", !.status = 400, !.message = "Invalid input data"]
          ELSE IF ~ok
          THEN [req EXCEPT !.pc = "done", !.status = 500, !.fault = TRUE,
                           !.message = "Internal server error"]
          ELSE IF existingUser # {}
          THEN [req EXCEPT !.pc = "done", !.status = 400,
                           !.message = "An account with this email already exists"]
          ELSE [req EXCEPT !.pc = "insert_user"]]
     /\ UNCHANGED <<now, ticks, buyers, history, nextId, procs, store, rlLast, rlGranted>>
     /\ UNCHANGED <<users, sessions, customTokenStore, verifs, mwLast, exLast>>
     /\ UNCHANGED <<verificationTokens, mailLast, adLast, loLast>>

\* authDb.insert(users).values(newUser).returning(); users.email is unique
SignupInsertUser(s, ok) ==
  LET r == signups[s]
      taken == \E u \in users : u.email = r.email
      done500 == [r EXCEPT !.pc = "done", !.status = 500, !.message = "Internal server error"]
  IN /\ r.pc = "insert_user"
     /\ IF ~ok
        THEN /\ signups' = [signups EXCEPT ![s] = [done500 EXCEPT !.fault = TRUE]]
             /\ UNCHANGED <<users, nextId>>
        ELSE IF taken
        THEN /\ signups' = [signups EXCEPT ![s] = done500]
             /\ UNCHANGED <<users, nextId>>
        ELSE /\ users' = users \cup {UserRow(nextId, r.email, NoTime)}
             /\ nextId' = nextId + 1
             /\ signups' = [signups EXCEPT ![s] = [r EXCEPT !.pc = "insert_token", !.userId = nextId]]
     /\ UNCHANGED <<now, ticks, buyers, history, nreq, procs, store, rlLast, rlGranted>>
     /\ UNCHANGED <<sessions, customTokenStore, verifs, mwLast, exLast>>
     /\ UNCHANGED <<verificationTokens, mailLast, adLast, loLast>>

\* authDb.insert(verificationTokens).values({identifier, token, expires})
SignupInsertToken(s, ok) ==
  LET r == signups[s] IN
  /\ r.pc = "insert_token"
  /\ IF ~ok
     THEN /\ signups' = [signups EXCEPT ![s] =
               [r EXCEPT !.pc = "done", !.status = 500, !.fault = TRUE,
                         !.message = "Internal server error"]]
          /\ UNCHANGED <<verificationTokens, nextId>>
     ELSE /\ verificationTokens' =
               verificationTokens \cup {VerificationTokenRow(r.email, nextId, now + TokenTtl)}
          /\ nextId' = nextId + 1
          /\ signups' = [signups EXCEPT ![s] = [r EXCEPT !.pc = "mail", !.token = nextId]]
  /\ UNCHANGED <<now, ticks, buyers, history, nreq, procs, store, rlLast, rlGranted>>
  /\ UNCHANGED <<users, sessions, customTokenStore, verifs, mwLast, exLast>>
  /\ UNCHANGED <<mailLast, adLast, loLast>>

\* transport.sendMail inside its own try/catch, then the success response
SignupMailFails(s, sent) ==
  /\ signups[s].pc = "mail"
  /\ signups' = [signups EXCEPT ![s] =
       IF sent THEN [@ EXCEPT !.pc = "done", !.status = 200, !.mailed = TRUE,
                              !.message = "Account created successfully"]
       ELSE [@ EXCEPT !.pc = "done", !.status = 500, !.message = "Internal server error"]]
  /\ UNCHANGED <<now, ticks, buyers, history, nextId, nreq, procs, store, rlLast, rlGranted>>
  /\ UNCHANGED <<users, sessions, customTokenStore, verifs, mwLast, exLast>>
  /\ UNCHANGED <<verificationTokens, mailLast, adLast, loLast>>
SignupMail(s, sent) ==
  /\ signups[s].pc = "mail"
  /\ signups' = [signups EXCEPT ![s] =
       [@ EXCEPT !.pc = "done", !.status = 200, !.mailed = sent,
                 !.message = "Account created successfully"]]
  /\ UNCHANGED <<now, ticks, buyers, history, nextId, nreq, procs, store, rlLast, rlGranted>>
  /\ UNCHANGED <<users, sessions, customTokenStore, verifs, mwLast, exLast>>
  /\ UNCHANGED <<verificationTokens, mailLast, adLast, loLast>>

\* ------------------------------------- POST, send the verification email
\* !email || !token, transport.sendMail, the rejected and pending addresses
SendEmail(email, token, sent) ==
  /\ nreq < MaxAuthReqs
  /\ nreq' = nreq + 1
  /\ mailLast' = [at |-> now, email |-> email, token |-> token, sent |-> sent,
                  status |-> IF email = Absent \/ token = NoToken THEN 400
                             ELSE IF sent THEN 200 ELSE 500]
  /\ UNCHANGED <<now, ticks, buyers, history, nextId, procs, store, rlLast, rlGranted>>
  /\ UNCHANGED <<users, sessions, customTokenStore, verifs, mwLast, exLast>>
  /\ UNCHANGED <<verificationTokens, signups, adLast, loLast>>

\* ------------------------------------------------- CustomDrizzleAdapter
\* createUser: nothing is stored, a user object with the id "pending" is returned
AdCreateUser(email) ==
  /\ nreq < MaxAuthReqs
  /\ nreq' = nreq + 1
  /\ adLast' = [Called("createUser", email, NoToken) EXCEPT !.user = UserRow(PendingId, email, NoTime)]
  /\ UNCHANGED <<now, ticks, buyers, history, nextId, procs, store, rlLast, rlGranted>>
  /\ UNCHANGED <<users, sessions, customTokenStore, verifs, mwLast, exLast>>
  /\ UNCHANGED <<verificationTokens, signups, mailLast, loLast>>

\* createSession: insert into sessions; session_token is unique and
\* user_id references users
AdCreateSession(sessionToken, userId, expires, ok) ==
  LET session == SessionRow(sessionToken, userId, expires)
      call == Called("createSession", Absent, sessionToken)
      stored == /\ ok
                /\ \E u \in users : u.id = userId
                /\ ~\E x \in sessions : x.sessionToken = sessionToken
  IN /\ nreq < MaxAuthReqs
     /\ nreq' = nreq + 1
     /\ sessions' = IF stored THEN sessions \cup {session} ELSE sessions
     /\ adLast' = IF stored THEN [call EXCEPT !.session = session] ELSE [call EXCEPT !.threw = TRUE]
     /\ nextId' = IF sessionToken = nextId THEN nextId + 1 ELSE nextId
     /\ UNCHANGED <<now, ticks, buyers, history, procs, store, rlLast, rlGranted>>
     /\ UNCHANGED <<users, customTokenStore, verifs, mwLast, exLast>>
     /\ UNCHANGED <<verificationTokens, signups, mailLast, loLast>>

\* updateSession: update sessions set expires where session_token, returning
AdUpdateSession(sessionToken, expires, ok) ==
  LET found == {x \in sessions : x.sessionToken = sessionToken}
      call == Called("updateSession", Absent, sessionToken)
  IN /\ nreq < MaxAuthReqs
     /\ nreq' = nreq + 1
     /\ sessions' = IF ok THEN {IF x \in found THEN [x EXCEPT !.expires = expires] ELSE x : x \in sessions}
                    ELSE sessions
     /\ adLast' = IF ~ok THEN [call EXCEPT !.threw = TRUE]
                  ELSE IF found = {} THEN call
                  ELSE [call EXCEPT !.session = [(CHOOSE x \in found : TRUE) EXCEPT !.expires = expires]]
     /\ UNCHANGED <<now, ticks, buyers, history, nextId, procs, store, rlLast, rlGranted>>
     /\ UNCHANGED <<users, customTokenStore, verifs, mwLast, exLast>>
     /\ UNCHANGED <<verificationTokens, signups, mailLast, loLast>>

\* deleteSession: delete from sessions where session_token
AdDeleteSession(sessionToken, ok) ==
  LET call == Called("deleteSession", Absent, sessionToken) IN
  /\ nreq < MaxAuthReqs
  /\ nreq' = nreq + 1
  /\ sessions' = IF ok THEN {x \in sessions : x.sessionToken # sessionToken} ELSE sessions
  /\ adLast' = IF ok THEN call ELSE [call EXCEPT !.threw = TRUE]
  /\ UNCHANGED <<now, ticks, buyers, history, nextId, procs, store, rlLast, rlGranted>>
  /\ UNCHANGED <<users, customTokenStore, verifs, mwLast, exLast>>
  /\ UNCHANGED <<verificationTokens, signups, mailLast, loLast>>

\* createVerificationToken: insert into verification_tokens; token is unique
AdCreateVerificationToken(identifier, token, expires, ok) ==
  LET verificationToken == VerificationTokenRow(identifier, token, expires)
      call == Called("createVerificationToken", identifier, token)
      stored == ok /\ ~\E t \in verificationTokens : t.token = token
  IN /\ nreq < MaxAuthReqs
     /\ nreq' = nreq + 1
     /\ verificationTokens' =
          IF stored THEN verificationTokens \cup {verificationToken} ELSE verificationTokens
     /\ adLast' = IF stored THEN [call EXCEPT !.verificationToken = verificationToken]
                  ELSE [call EXCEPT !.threw = TRUE]
     /\ nextId' = IF token = nextId THEN nextId + 1 ELSE nextId
     /\ UNCHANGED <<now, ticks, buyers, history, procs, store, rlLast, rlGranted>>
     /\ UNCHANGED <<users, sessions, customTokenStore, verifs, mwLast, exLast>>
     /\ UNCHANGED <<signups, mailLast, loLast>>

\* useVerificationToken: nothing is read or deleted, null is returned
AdUseVerificationToken(identifier, token) ==
  /\ nreq < MaxAuthReqs
  /\ nreq' = nreq + 1
  /\ adLast' = Called("useVerificationToken", identifier, token)
  /\ UNCHANGED <<now, ticks, buyers, history, nextId, procs, store, rlLast, rlGranted>>
  /\ UNCHANGED <<users, sessions, customTokenStore, verifs, mwLast, exLast>>
  /\ UNCHANGED <<verificationTokens, signups, mailLast, loLast>>

\* -------------------------------------------------- POST /api/auth/logout
\* getServerSession(authOptions): with the database strategy the session is
\* the row that the adapter's getSessionAndUser finds for the cookie, unless
\* it has expired
LogoutBegin(cookie) ==
  LET req == [NoLogout EXCEPT !.at = now, !.cookie = cookie] IN
  /\ loLast.pc \in {"idle", "done"}
  /\ nreq < MaxAuthReqs
  /\ nreq' = nreq + 1
  /\ loLast' = IF getCustomSession(cookie, sessions, users, now) = NoCustomSession
               THEN [req EXCEPT !.pc = "done", !.status = 401]
               ELSE [req EXCEPT !.pc = "delete"]
  /\ UNCHANGED <<now, ticks, buyers, history, nextId, procs, store, rlLast, rlGranted>>
  /\ UNCHANGED <<users, sessions, customTokenStore, verifs, mwLast, exLast>>
  /\ UNCHANGED <<verificationTokens, signups, mailLast, adLast>>

\* authDb.delete(sessions).where(sessionToken) inside its own try/catch,
\* then the response that clears the cookies
LogoutDelete(ok) ==
  /\ loLast.pc = "delete"
  /\ sessions' = IF ok THEN {x \in sessions : x.sessionToken # loLast.cookie} ELSE sessions
  /\ loLast' = [loLast EXCEPT !.pc = "done", !.status = 200, !.fault = ~ok]
  /\ UNCHANGED <<now, ticks, buyers, history, nextId, nreq, procs, store, rlLast, rlGranted>>
  /\ UNCHANGED <<users, customTokenStore, verifs, mwLast, exLast>>
  /\ UNCHANGED <<verificationTokens, signups, mailLast, adLast>>

\* ---------------------------------------------------------- specifications
ClientHeaders == Headers("10.0.0.1", "")
NoSuchId == 0 - 9
TargetIds == {b.id : b \in buyers} \cup {NoSuchId}
Times == 1..(1 + MaxTicks)

\* a valid body that carries the required fields only
BaseBody ==
  Body(GoodPhone, Absent, "Plot", Absent, AbsentNum, AbsentNum, Absent, Absent, FALSE, <<>>, NoDate)

\* --- concurrent edits of one owner: status and updatedAt vary
OccBodies ==
  {[BaseBody EXCEPT !.status = st, !.updatedAt = u] :
     st \in {"Qualified"}, u \in {NoDate} \cup {JsonString(t) : t \in Times}}

NextOcc ==
  \/ \E p \in Procs : PostBegin(p, "u1", ClientHeaders, BaseBody)
  \/ \E p \in Procs, ok \in BOOLEAN : PostInsert(p, ok)
  \/ \E p \in Procs, ok \in BOOLEAN : PostHistory(p, ok)
  \/ \E p \in Procs, id \in TargetIds, b \in OccBodies : PutBegin(p, "u1", id, b)
  \/ \E p \in Procs, ok \in BOOLEAN : PutUpdate(p, ok)
  \/ \E p \in Procs, ok \in BOOLEAN : PutHistory(p, ok)
  \/ Tick(1)

SpecOcc == Init /\ [][NextOcc]_vars

\* --- two users, one of them the owner: who may read, edit and delete
AuthzBodies ==
  {BaseBody, [BaseBody EXCEPT !.status = "Qualified"], [BaseBody EXCEPT !.phone = ShortPhone]}

NextAuthz ==
  \/ \E p \in Procs : PostBegin(p, "u1", ClientHeaders, BaseBody)
  \/ \E p \in Procs, ok \in BOOLEAN : PostInsert(p, ok)
  \/ \E p \in Procs, ok \in BOOLEAN : PostHistory(p, ok)
  \/ \E p \in Procs, who \in Users \cup {NoUser}, id \in TargetIds, b \in AuthzBodies :
       PutBegin(p, who, id, b)
  \/ \E p \in Procs, ok \in BOOLEAN : PutUpdate(p, ok)
  \/ \E p \in Procs, ok \in BOOLEAN : PutHistory(p, ok)
  \/ \E p \in Procs, who \in Users \cup {NoUser}, id \in TargetIds : DeleteBegin(p, who, id)
  \/ \E p \in Procs, ok \in BOOLEAN : DeleteExec(p, ok)
  \/ \E p \in Procs, who \in Users \cup {NoUser}, id \in TargetIds : GetBegin(p, who, id)
  \/ \E p \in Procs, ok \in BOOLEAN : GetHistory(p, ok)

SpecAuthz == Init /\ [][NextAuthz]_vars

\* --- one owner creating and editing, one request at a time: the email,
\* the status and the tags vary, and statements fail
HistCreateBodies ==
  {[BaseBody EXCEPT !.email = e, !.hasTags = g, !.tags = IF g THEN <<"vip">> ELSE <<>>] :
     e \in {Absent, "a@x.in"}, g \in BOOLEAN}

HistUpdateBodies ==
  {[BaseBody EXCEPT !.email = e, !.status = st,
                    !.hasTags = g, !.tags = IF g THEN <<"vip">> ELSE <<>>] :
     e \in {Absent, "", "a@x.in"}, st \in {Absent, "New", "Qualified"}, g \in BOOLEAN}
     \cup {[BaseBody EXCEPT !.notes = ""]}

NextHist ==
  \/ \E b \in HistCreateBodies : PostBegin("p1", "u1", ClientHeaders, b)
  \/ \E ok \in BOOLEAN : PostInsert("p1", ok)
  \/ \E ok \in BOOLEAN : PostHistory("p1", ok)
  \/ \E id \in TargetIds, b \in HistUpdateBodies : PutBegin("p1", "u1", id, b)
  \/ \E ok \in BOOLEAN : PutUpdate("p1", ok)
  \/ \E ok \in BOOLEAN : PutHistory("p1", ok)

SpecHist == Init /\ [][NextHist]_vars

\* --- the cross-field rules: property type, bhk and the two budget bounds
\* vary, in bodies and in the rows of an uploaded file
InvBodies ==
  {[BaseBody EXCEPT !.propertyType = t, !.bhk = k] :
     t \in {"Apartment", "Plot"}, k \in {Absent, "2"}}
  \cup {[BaseBody EXCEPT !.budgetMin = lo, !.budgetMax = hi] :
          lo \in {AbsentNum, 1, 2}, hi \in {AbsentNum, 1, 2}}
  \cup {[BaseBody EXCEPT !.budgetMin = 0], [BaseBody EXCEPT !.phone = ShortPhone, !.propertyType = "Villa"]}

BaseCsvRow == CsvRow(GoodPhone, "", "Plot", "", "", "", "", "", "")

InvCsvRows ==
  {[BaseCsvRow EXCEPT !.propertyType = t, !.bhk = k] :
     t \in {"Apartment", "Plot"}, k \in {"", "2"}}
  \cup {[BaseCsvRow EXCEPT !.budgetMin = lo, !.budgetMax = hi] :
          lo \in {"", "1", "2"}, hi \in {"", "1", "2"}}
  \cup {[BaseCsvRow EXCEPT !.budgetMin = "0"], [BaseCsvRow EXCEPT !.budgetMax = "abc"],
        [BaseCsvRow EXCEPT !.phone = ShortPhone, !.propertyType = "Villa"]}

InvFiles ==
  {CsvFile(TRUE, expectedHeaders, <<r>>) : r \in InvCsvRows}
  \cup {CsvFile(TRUE, expectedHeaders, <<[BaseCsvRow EXCEPT !.budgetMin = "2", !.budgetMax = "1"], r>>) :
          r \in {BaseCsvRow, [BaseCsvRow EXCEPT !.propertyType = "Villa"]}}
  \cup {CsvFile(FALSE, expectedHeaders, <<BaseCsvRow>>),
        CsvFile(TRUE, expectedHeaders \ {"phone"}, <<BaseCsvRow>>),
        CsvFile(TRUE, expectedHeaders, <<>>)}

NextInv ==
  \/ \E b \in InvBodies : nreq < MaxInvReqs /\ PostBegin("p1", "u1", ClientHeaders, b)
  \/ \E ok \in BOOLEAN : PostInsert("p1", ok)
  \/ \E ok \in BOOLEAN : PostHistory("p1", ok)
  \/ \E id \in TargetIds, b \in InvBodies : nreq < MaxInvReqs /\ PutBegin("p1", "u1", id, b)
  \/ \E ok \in BOOLEAN : PutUpdate("p1", ok)
  \/ \E ok \in BOOLEAN : PutHistory("p1", ok)
  \/ \E f \in InvFiles : nreq < MaxInvReqs /\ ImportBegin("p1", "u1", f)
  \/ \E ok \in BOOLEAN : ImportInsert("p1", ok)
  \/ \E ok \in BOOLEAN : ImportHistory("p1", ok)

SpecInv == Init /\ [][NextInv]_vars

\* --- imports: files of three rows, all valid or with one malformed phone,
\* a file of 201 rows, a file without the phone column, an empty file; each
\* of the two inserts may fail
LettersPhone == Phone(FALSE, 10)
ThreeRows(phone) == <<BaseCsvRow, [BaseCsvRow EXCEPT !.phone = phone], [BaseCsvRow EXCEPT !.status = "Qualified"]>>
TooManyRows == [i \in 1..(MaxImportRows + 1) |-> BaseCsvRow]
ImpFiles ==
  {CsvFile(TRUE, expectedHeaders, ThreeRows(ph)) : ph \in {GoodPhone, ShortPhone, LettersPhone}}
  \cup {CsvFile(TRUE, expectedHeaders, TooManyRows),
        CsvFile(TRUE, expectedHeaders \ {"phone"}, ThreeRows(GoodPhone)),
        CsvFile(TRUE, expectedHeaders, <<>>),
        CsvFile(FALSE, expectedHeaders, ThreeRows(GoodPhone))}

NextImp ==
  \/ \E who \in {"u1", NoUser}, f \in ImpFiles : ImportBegin("p1", who, f)
  \/ \E ok \in BOOLEAN : ImportInsert("p1", ok)
  \/ \E ok \in BOOLEAN : ImportHistory("p1", ok)

SpecImp == Init /\ [][NextImp]_vars

\* --- export: leads are created, the clock moves, and the export is
\* requested with and without filters and sort parameters
ExpBodies ==
  {BaseBody, [BaseBody EXCEPT !.propertyType = "Office", !.status = "Qualified"]}
ExpQueries ==
  {Query(t, "", "", "") : t \in {"", "Plot", "Retail"}}
  \cup {Query("", "Qualified", "status", "asc"), Query("", "Sold", "", "")}

NextExp ==
  \/ \E b \in ExpBodies : PostBegin("p1", "u1", ClientHeaders, b)
  \/ \E ok \in BOOLEAN : PostInsert("p1", ok)
  \/ \E ok \in BOOLEAN : PostHistory("p1", ok)
  \/ \E who \in {"u1", NoUser}, q \in ExpQueries, ok \in BOOLEAN : ExportGet(who, q, ok)
  \/ Tick(1)

SpecExp == Init /\ [][NextExp]_vars

\* --- the limiters alone: every configured limiter is checked for one
\* client, and the clock moves by a millisecond or by a whole window
WindowSteps == {1, buyerMutationRateLimiter.windowMs, authRateLimiter.windowMs}

NextRL ==
  \/ \E limiter \in Limiters : Check(limiter, ClientHeaders)
  \/ \E d \in WindowSteps : Tick(d)

SpecRL == Init /\ [][NextRL]_vars

\* --- sign-in by custom verification: tokens are issued and verified
\* concurrently, the clock moves past the life of a token
AuthSteps == {TokenTtl + 1}
TokenInputs == DOMAIN customTokenStore \cup {verifs[v].token : v \in Verifs}

NextAuthn ==
  \/ \E email \in Emails \cup {Absent} : VerifyPost(email)
  \/ \E v \in Verifs, token \in TokenInputs, email \in Emails : VerifyBegin(v, token, email)
  \/ \E v \in Verifs, ok \in BOOLEAN : VerifySelect(v, ok)
  \/ \E v \in Verifs, ok \in BOOLEAN : VerifyUpsert(v, ok)
  \/ \E v \in Verifs, ok \in BOOLEAN : VerifySession(v, ok)
  \/ \E d \in AuthSteps : Tick(d)

SpecAuthn == Init /\ [][NextAuthn]_vars

\* --- route protection: a user has signed in, requests with the cookie of
\* that session, with the cookie of no session and with no cookie pass the
\* routing layer, the clock moves by a second or by the life of a session
SignedInUser == 1
SignedInToken == 2
StaleCookie == 0
InitMw ==
  /\ now = 1
  /\ ticks = 0
  /\ buyers = {}
  /\ history = {}
  /\ nextId = 3
  /\ nreq = 0
  /\ procs = [p \in Procs |-> Idle]
  /\ store = <<>>
  /\ rlLast = [limiter |-> apiRateLimiter, key |-> "", at |-> NoTime,
               entryBefore |-> NoEntry,
               grantedBefore |-> 0, resetBefore |-> NoTime,
               result |-> [allowed |-> TRUE, remaining |-> 0, resetTime |-> NoTime, total |-> 0],
               response |-> NoResponse]
  /\ rlGranted = <<>>
  /\ users = {UserRow(SignedInUser, "a@x.in", 1)}
  /\ sessions = {SessionRow(SignedInToken, SignedInUser, 1 + SessionTtl)}
  /\ customTokenStore = <<>>
  /\ verifs = [v \in Verifs |-> IdleVerif]
  /\ mwLast = NoMiddlewareRequest
  /\ exLast = NoExport
  /\ verificationTokens = {}
  /\ signups = [s \in Signups |-> IdleSignup]
  /\ mailLast = NoMail
  /\ adLast = NoCall
  /\ loLast = NoLogout

MwSteps == {1, SessionTtl}
CookieInputs == {x.sessionToken : x \in sessions} \cup {StaleCookie, NoCookie}

NextMw ==
  \/ \E pathname \in Paths, cookie \in CookieInputs : Middleware(pathname, cookie)
  \/ \E d \in MwSteps : Tick(d)

SpecMw == InitMw /\ [][NextMw]_vars

\* --- signup: two requests at a time, for the same and for different
\* emails, each statement and the mail may fail; tokens are issued by the
\* custom verification and their mails are sent
SignupBodies ==
  {SignupBody(4, e) : e \in Emails \cup {"not-an-email"}} \cup {SignupBody(1, "a@x.in")}

NextSignup ==
  \/ \E s \in Signups, b \in SignupBodies, ok \in BOOLEAN : SignupBegin(s, b, ok)
  \/ \E s \in Signups, ok \in BOOLEAN : SignupInsertUser(s, ok)
  \/ \E s \in Signups, ok \in BOOLEAN : SignupInsertToken(s, ok)
  \/ \E s \in Signups, sent \in BOOLEAN : SignupMail(s, sent)
  \/ VerifyPost("a@x.in")
  \/ \E email \in {"a@x.in", Absent}, token \in DOMAIN customTokenStore \cup {NoToken},
        sent \in BOOLEAN : SendEmail(email, token, sent)

SpecSignup == Init /\ [][NextSignup]_vars

\* --- the adapter called directly: a user has signed in; users are looked
\* up and created, sessions are created under fresh tokens, extended and
\* deleted, verification tokens are created and used, and the clock moves
\* past the life of a session
AdapterSteps == {SessionTtl + 1}

NextAdapter ==
  \/ \E email \in Emails : AdCreateUser(email)
  \/ \E userId \in {u.id : u \in users} \cup {PendingId}, ok \in BOOLEAN :
       AdCreateSession(nextId, userId, now + SessionTtl, ok)
  \/ \E sessionToken \in CookieInputs \ {NoCookie}, ok \in BOOLEAN :
       AdUpdateSession(sessionToken, now + SessionTtl, ok)
  \/ \E sessionToken \in CookieInputs \ {NoCookie}, ok \in BOOLEAN :
       AdDeleteSession(sessionToken, ok)
  \/ \E ok \in BOOLEAN : AdCreateVerificationToken("a@x.in", nextId, now + TokenTtl, ok)
  \/ \E token \in {t.token : t \in verificationTokens} \cup {NoToken} :
       AdUseVerificationToken("a@x.in", token)
  \/ \E d \in AdapterSteps : Tick(d)

SpecAdapter == InitMw /\ [][NextAdapter]_vars

\* --- sign-out: a user has signed in; requests with the session's cookie,
\* with the cookie of no session and with no cookie sign out and pass the
\* routing layer, the delete may fail, the clock moves
NextLogout ==
  \/ \E cookie \in CookieInputs : LogoutBegin(cookie)
  \/ \E ok \in BOOLEAN : LogoutDelete(ok)
  \/ \E pathname \in {BuyersPath, SignInPath}, cookie \in CookieInputs : Middleware(pathname, cookie)
  \/ \E d \in MwSteps : Tick(d)

SpecLogout == InitMw /\ [][NextLogout]_vars

\* ------------------------------------------------------------- properties
\* slot p takes up a new request of kind op in this step
Begins(p, op) == nreq' = nreq + 1 /\ procs'[p].seq = nreq' /\ procs'[p].op = op

\* the body passes updateBuyerSchema once updatedAt is set aside
OtherwiseValid(b) == updateBuyerErrors([b EXCEPT !.updatedAt = NoDate]) = {}

Done(p, op, status) == procs[p].pc = "done" /\ procs[p].op = op /\ procs[p].status = status

\* C1: for a buyer whose updatedAt an earlier update (slot q) moved from T0
\* to T1, an owner's PUT with an otherwise valid body that supplies T0 is
\* answered 409 with currentUpdatedAt = T1 and writes nothing, and one that
\* supplies T1, or no updatedAt, goes on to apply the update.
C1_StalePutRejectedFreshPutApplied ==
  [][\A p \in Procs, q \in Procs :
       LET r == procs'[p]
           row == selectBuyer(r.id)
           T0 == procs[q].cur.updatedAt
           T1 == procs[q].out.updatedAt
       IN (/\ Begins(p, "PUT")
           /\ q # p /\ Done(q, "PUT", 200) /\ procs[q].id = r.id
           /\ row # NoRow /\ row.updatedAt = T1 /\ T0 # T1
           /\ r.who = row.ownerId
           /\ OtherwiseValid(r.data))
          => /\ (r.data.updatedAt.kind # "absent" /\ r.data.updatedAt.t = T0)
                  => (r.pc = "done" /\ r.status = 409 /\ r.currentUpdatedAt = T1)
             /\ (r.data.updatedAt.kind = "absent" \/ r.data.updatedAt.t = T1)
                  => r.pc = "put_update"
             /\ buyers' = buyers /\ history' = history]_vars

\* C2: of two owner PUTs on one buyer that supply the same observed
\* updatedAt, at most one commits and the other is answered 409.
C2_OneCommitsOtherConflicts ==
  \A p \in Procs, q \in Procs :
    (/\ p # q
     /\ procs[p].pc = "done" /\ procs[p].op = "PUT"
     /\ procs[q].pc = "done" /\ procs[q].op = "PUT"
     /\ procs[p].id = procs[q].id
     /\ selectBuyer(procs[p].id) # NoRow
     /\ procs[p].who = selectBuyer(procs[p].id).ownerId /\ procs[q].who = procs[p].who
     /\ procs[p].data.updatedAt.kind # "absent"
     /\ procs[p].data.updatedAt = procs[q].data.updatedAt
     /\ OtherwiseValid(procs[p].data) /\ OtherwiseValid(procs[q].data)
     /\ procs[p].status # 500 /\ procs[q].status # 500)
    => \E x \in {p, q}, y \in {p, q} :
         x # y /\ procs[x].status = 409 /\ procs[y].status \in {200, 409}

\* slot p takes up, in this step, a request of a signed-in user who does not
\* own the buyer it names
NonOwnerBegins(p, op) ==
  /\ Begins(p, op)
  /\ selectBuyer(procs'[p].id) # NoRow
  /\ procs'[p].who \in Users
  /\ procs'[p].who # selectBuyer(procs'[p].id).ownerId

\* the request of slot p has been answered with status and will not write
Answered(p, status) == procs'[p].pc = "done" /\ procs'[p].status = status

\* the read of a non-owner goes through and its response carries the buyer
NonOwnerReads(p) ==
  /\ NonOwnerBegins(p, "GET")
       => procs'[p].pc = "get_history" /\ procs'[p].cur = selectBuyer(procs'[p].id)
  /\ (procs[p].pc = "get_history" /\ procs'[p].pc = "done" /\ procs'[p].status # 500)
       => procs'[p].status = 200 /\ procs'[p].out = procs[p].cur

RowExists(id) == \E b \in buyers : b.id = id

\* C4: once a create or an update with a non-empty diff has ended, the buyer
\* write and its history write have both taken effect or neither has.
C4_BuyerAndHistoryTogether ==
  \A p \in Procs :
    procs[p].pc = "done" =>
      /\ (procs[p].op = "POST" /\ RowExists(procs[p].id))
           => \E h \in history : h.buyerId = procs[p].id /\ h.diff = createdDiff
      /\ (procs[p].op = "PUT" /\ procs[p].out # NoRow /\ DOMAIN procs[p].diff # {}
          /\ RowExists(procs[p].id))
           => \E h \in history : h.id = procs[p].histId /\ h.buyerId = procs[p].id

\* slot p, handling a request of kind op, moves from one step to another
Moves(p, op, from, to) ==
  procs[p].op = op /\ procs[p].pc = from /\ procs'[p].op = op /\ procs'[p].pc = to

\* the table gains exactly the one row r
GainsOne(old, new, r) == r \notin old /\ new = old \cup {r}

\* C5: a POST that ends with 201 has added exactly one buyer row, at its
\* insert, and exactly one history row, for that buyer and with the single
\* key "created", at the step that answers; its other steps add nothing.
C5_CreateAddsOneBuyerOneCreatedEntry ==
  [][\A p \in Procs :
       /\ Begins(p, "POST") => buyers' = buyers /\ history' = history
       /\ Moves(p, "POST", "post_insert", "post_history")
            => /\ \E b \in buyers' : /\ GainsOne(buyers, buyers', b)
                                     /\ b.id = procs'[p].id
                                     /\ \A x \in buyers : x.id # b.id
               /\ history' = history
       /\ (Moves(p, "POST", "post_insert", "done") \/ Moves(p, "POST", "post_history", "done"))
            => /\ buyers' = buyers
               /\ procs'[p].status = 201
                    => /\ procs[p].pc = "post_history"
                       /\ \E h \in history' : /\ GainsOne(history, history', h)
                                              /\ h.buyerId = procs[p].id
                                              /\ DOMAIN h.diff = {"created"}
                                              /\ \A x \in history : x.id # h.id
               /\ procs'[p].status # 201 => history' = history]_vars

\* a create has been answered 201 and its buyer and "created" entry are stored
C5_Witness ==
  \E p \in Procs :
    /\ Done(p, "POST", 201)
    /\ procs[p].data.email = "a@x.in" /\ procs[p].data.tags = <<"vip">>
    /\ Cardinality({b \in buyers : b.id = procs[p].id}) = 1
    /\ Cardinality({h \in history : h.buyerId = procs[p].id}) = 1

\* the update left every column but updatedAt as the handler had read it
NoFieldChanged(r) == r.out # NoRow /\ [r.out EXCEPT !.updatedAt = r.cur.updatedAt] = r.cur

OnlyStatusChanges(r) ==
  /\ r.data.status # Absent /\ r.data.status # r.cur.status
  /\ \A k \in DiffKeys \ {"status"} : hasKey(r.data, k) => r.data[k] = r.cur[k]

\* C7: a PUT that changes only the status and ends with 200 has added
\* exactly one history row, at the step that answers, and its diff is
\* exactly {status: {old, new}}.
C7_StatusOnlyDiff ==
  [][\A p \in Procs :
       (procs[p].op = "PUT" /\ OnlyStatusChanges(procs[p]))
       => /\ Moves(p, "PUT", "put_update", "put_history") => history' = history
          /\ (Moves(p, "PUT", "put_update", "done") \/ Moves(p, "PUT", "put_history", "done"))
               => /\ procs'[p].status = 200
                       => /\ procs[p].pc = "put_history"
                          /\ \E h \in history' :
                               /\ GainsOne(history, history', h)
                               /\ h.buyerId = procs[p].id
                               /\ h.diff = [status |-> [old |-> procs[p].cur.status,
                                                        new |-> procs[p].data.status]]
                  /\ procs'[p].status # 200 => history' = history]_vars

\* a status-only update from "New" to "Qualified" has been answered 200
C7_Witness ==
  \E p \in Procs :
    /\ Done(p, "PUT", 200) /\ OnlyStatusChanges(procs[p])
    /\ procs[p].cur.status = "New" /\ procs[p].data.status = "Qualified"
    /\ \E h \in history : h.id = procs[p].histId /\ DOMAIN h.diff = {"status"}

\* C8: every stored buyer that has both budget bounds has
\* budgetMax >= budgetMin.
C8_BudgetRangeOfStoredBuyers ==
  \A b \in buyers :
    (b.budgetMin # NullNum /\ b.budgetMax # NullNum) => b.budgetMax >= b.budgetMin

NeedsBhk(d) == d.propertyType \in {"Apartment", "Villa"}

\* C9: every stored Apartment or Villa has a bhk; a create or update whose
\* otherwise valid body names such a type without a bhk is answered 400 with
\* an issue on bhk, and the like body for a Plot is not refused.
C9_BhkForApartmentAndVilla ==
  /\ \A b \in buyers : NeedsBhk(b) => b.bhk # Null
  /\ \A p \in Procs :
       (/\ procs[p].op \in {"POST", "PUT"}
        /\ procs[p].who # NoUser /\ procs[p].status # 429
        /\ procs[p].data.bhk = Absent
        /\ updateBuyerBaseErrors(procs[p].data) = {} /\ budgetRefine(procs[p].data))
       => /\ NeedsBhk(procs[p].data)
               => /\ procs[p].pc = "done" /\ procs[p].status = 400
                  /\ \E e \in procs[p].errors : e.path = "bhk"
          /\ procs[p].data.propertyType = "Plot" => procs[p].status # 400

\* an Apartment without bhk has just been refused with the issue on bhk,
\* while a Plot without bhk is stored
C9_Witness ==
  /\ \E p \in Procs :
       /\ procs[p].pc = "done" /\ procs[p].op \in {"POST", "PUT"} /\ procs[p].status = 400
       /\ procs[p].data.propertyType = "Apartment" /\ procs[p].data.bhk = Absent
       /\ procs[p].errors = {Issue("bhk", "custom")}
  /\ \E b \in buyers : b.propertyType = "Plot" /\ b.bhk = Null

\* C10: a check made when the key's open window has already had maxRequests
\* allowed checks is denied, reports remaining 0 and the window's resetTime,
\* and is answered 429 with limit, remaining, reset and retry-after.
C10_DeniedOnceLimitReached ==
  (/\ rlLast.at # NoTime
   /\ rlLast.resetBefore # NoTime
   /\ rlLast.grantedBefore >= rlLast.limiter.maxRequests)
  => /\ ~rlLast.result.allowed
     /\ rlLast.result.remaining = 0
     /\ rlLast.result.resetTime = rlLast.resetBefore
     /\ rlLast.response.status = 429
     /\ rlLast.response.limit = rlLast.limiter.maxRequests
     /\ rlLast.response.remaining = 0
     /\ rlLast.response.reset = rlLast.resetBefore
     /\ rlLast.response.retryAfter = CeilSeconds(rlLast.resetBefore - rlLast.at)
     /\ rlLast.response.retryAfter >= 0

\* the eleventh lead-mutation check of a window has been denied
C10_Witness ==
  /\ rlLast.limiter = buyerMutationRateLimiter
  /\ rlLast.grantedBefore = buyerMutationRateLimiter.maxRequests
  /\ rlLast.at > 1 /\ rlLast.at <= rlLast.resetBefore
  /\ rlLast.response.status = 429

\* C11: a check for a key that has no entry, or whose entry's resetTime has
\* passed, is allowed, leaves the entry at count 1 with resetTime = now +
\* windowMs of the checking limiter, and reports remaining = maxRequests - 1.
C11_FirstCheckOpensWindow ==
  (/\ rlLast.at # NoTime
   /\ \/ rlLast.entryBefore = NoEntry
      \/ rlLast.at > rlLast.entryBefore.resetTime)
  => /\ rlLast.result.allowed
     /\ rlLast.result.remaining = rlLast.limiter.maxRequests - 1
     /\ rlLast.result.resetTime = rlLast.at + rlLast.limiter.windowMs
     /\ storeGet(store, rlLast.key) =
          [count |-> 1, resetTime |-> rlLast.at + rlLast.limiter.windowMs]

\* a check found an entry whose window was over and opened a new one
C11_Witness ==
  /\ rlLast.at # NoTime
  /\ rlLast.entryBefore # NoEntry
  /\ rlLast.entryBefore.count > 1
  /\ rlLast.at > rlLast.entryBefore.resetTime
  /\ storeGet(store, rlLast.key).count = 1
  /\ rlLast.result.remaining = rlLast.limiter.maxRequests - 1

\* what limiter m answers to its next check of client h, given store s
Outcome(m, h, s, t) ==
  LET r == check(m, keyOf(m, h), s, t)
  IN [allowed |-> r.allowed, remaining |-> r.remaining, resetTime |-> r.resetTime]

\* C12: a check on one limiter leaves unchanged what every other configured
\* limiter answers to the same client: the count behind remaining, the
\* resetTime and the allow/deny outcome.
C12_LimitersIndependent ==
  [][(rlLast' # rlLast \/ store' # store)
     => \A m \in Limiters \ {rlLast'.limiter} :
          Outcome(m, ClientHeaders, store', now') = Outcome(m, ClientHeaders, store, now)]_vars

\* the cookie names a session row whose expires lies before t
ExpiredSession(cookie, t) == \E x \in sessions : x.sessionToken = cookie /\ x.expires < t

\* C13: a request whose session row has expired is treated like a request
\* with no session: the routing layer answers it as it answers the same path
\* without a cookie, and the session lookup of the endpoints yields no user.
C13_ExpiredSessionIsNoSession ==
  (mwLast.at # NoTime /\ ExpiredSession(mwLast.cookie, mwLast.at))
  => /\ mwLast.response = routed(mwLast.pathname, NoCookie)
     /\ getCustomSession(mwLast.cookie, sessions, users, mwLast.at) = NoCustomSession

\* the allow-list the specification names: auth pages, static assets, root
AllowListed(pathname) ==
  \/ startsWith(pathname, <<"/", "a", "u", "t", "h">>)
  \/ startsWith(pathname, <<"/", "_", "n", "e", "x", "t">>)
  \/ startsWith(pathname, <<"/", "f", "a", "v", "i", "c", "o", "n">>)
  \/ pathname = RootPath

\* C14: a request without a session cookie for a path outside the allow-list
\* is answered with a redirect to /auth/signin whose callbackUrl is the
\* requested path; only allow-listed paths pass without a session.
C14_NoCookieRedirectsToSignIn ==
  (mwLast.at # NoTime /\ mwLast.cookie = NoCookie /\ ~AllowListed(mwLast.pathname))
  => mwLast.response = Redirect(SignInPath, mwLast.pathname)

\* the request of slot v has been rejected and has created no session
Rejected(v) ==
  /\ verifs[v].pc = "done" /\ verifs[v].status = 400
  /\ verifs[v].cookie = NoCookie
  /\ ~\E x \in sessions : x.sessionToken = verifs[v].sessionToken

\* C15: of the custom-verify GET requests that carry the same token and
\* email at most one is not rejected with 400, the rejected ones create no
\* session, and every session row is the session of one successful request.
C15_TokenCreatesAtMostOneSession ==
  /\ \A v, w \in Verifs :
       (/\ v # w
        /\ verifs[v].pc # "idle" /\ verifs[w].pc # "idle"
        /\ verifs[v].token # NoToken
        /\ verifs[v].token = verifs[w].token /\ verifs[v].email = verifs[w].email)
       => Rejected(v) \/ Rejected(w)
  /\ \A x \in sessions :
       Cardinality({v \in Verifs : verifs[v].status = 200 /\ verifs[v].cookie = x.sessionToken}) = 1

\* two requests carried the same valid token: one signed in, one was rejected
C15_Witness ==
  \E v, w \in Verifs :
    /\ v # w /\ verifs[v].token = verifs[w].token /\ verifs[v].email = verifs[w].email
    /\ verifs[v].valid
    /\ verifs[v].pc = "done" /\ verifs[v].status = 200
    /\ \E x \in sessions : x.sessionToken = verifs[v].cookie
    /\ Rejected(w)

\* C16: a custom-verify GET that carried an issued, unexpired, unused token
\* with its email, and met no database failure, ends with 200 and the session
\* cookie, a user row of the email with emailVerified set, a session row of
\* that user, and the token gone from the store.
C16_ValidTokenSignsIn ==
  \A v \in Verifs :
    (verifs[v].pc = "done" /\ verifs[v].valid /\ ~verifs[v].fault)
    => /\ verifs[v].status = 200
       /\ verifs[v].cookie # NoCookie
       /\ \E u \in users :
            /\ u.email = verifs[v].email /\ u.emailVerified # NoTime
            /\ \E x \in sessions : x.sessionToken = verifs[v].cookie /\ x.userId = u.id
       /\ verifs[v].token \notin DOMAIN customTokenStore

\* the rows of a file whose phone fails phoneSchema
MalformedPhones(file) == {i \in 1..Len(file.rows) : ~phoneSchemaOK(file.rows[i].phone)}

\* C17: an import response has totalRows = validRows + errorRows, validRows
\* being the rows staged and errorRows the rows left out; a file in which
\* one row alone fails, on its phone, reports validRows = n - 1 and
\* errorRows = 1.
C17_ImportCountsAddUp ==
  \A p \in Procs :
    Done(p, "IMPORT", 200)
    => LET r == procs[p].result
           n == Len(procs[p].file.rows)
       IN /\ r.totalRows = n
          /\ r.validRows = Len(procs[p].staged)
          /\ r.totalRows = r.validRows + r.errorRows
          /\ (Cardinality(MalformedPhones(procs[p].file)) = 1 /\ r.validRows = n - 1)
             => r.errorRows = 1

\* C18: an import that ends with the database-error outcome leaves none of
\* its staged rows in buyers and none of their entries in buyer_history.
C18_FailedImportLeavesNothing ==
  \A p \in Procs :
    Done(p, "IMPORT", 500)
    => \A i \in 1..Len(procs[p].staged) :
         /\ ~\E b \in buyers : b.id = procs[p].staged[i].id
         /\ ~\E h \in history : h.buyerId = procs[p].staged[i].id

\* the file is one the route refuses as a whole
Oversized(file) == Len(file.rows) > MaxImportRows
LacksHeaders(file) == ~(expectedHeaders \subseteq file.headers)

ValidQuery(q) ==
  /\ q.propertyType \in propertyTypeSchema \cup {""}
  /\ q.status \in statusSchema \cup {""}
  /\ q.sortBy \in sortByEnum \cup {""}
  /\ q.sortOrder \in sortOrderEnum \cup {""}

\* C20: an export by a signed-in user with valid filter parameters, the
\* select not failing, answers 404 exactly when no buyer matches, and
\* otherwise 200 with an attachment that holds every matching buyer once,
\* however many there are, in the requested order.
C20_ExportReturnsAllMatching ==
  (exLast.at # NoTime /\ exLast.who # NoUser /\ ValidQuery(exLast.query) /\ ~exLast.fault)
  => LET f == exportFilters(exLast.query)
         n == Len(exLast.rows)
     IN IF exLast.matching = {} THEN exLast.status = 404
        ELSE /\ exLast.status = 200 /\ exLast.attachment
             /\ n = Cardinality(exLast.matching)
             /\ {exLast.rows[i] : i \in 1..n} = exLast.matching
             /\ \A i, j \in 1..n : i < j => inOrder(f, exLast.rows[i], exLast.rows[j])

\* ---------------------------------------------------------------- C27
\* the delete statement of slot p goes through in this step
DeleteSucceeds(p) ==
  procs[p].pc = "delete_exec" /\ procs'[p].pc = "done" /\ procs'[p].status = 200

\* C27: a successful DELETE removes the buyer and all of its history rows
\* and leaves every other buyer and every other history row as it was; each
\* history row references an existing buyer; and no other step removes or
\* changes a history row.
C27_DeleteCascadesHistoryOtherwiseKept ==
  [][/\ \A p \in Procs :
          DeleteSucceeds(p) =>
            /\ buyers' = {b \in buyers : b.id # procs[p].id}
            /\ history' = {x \in history : x.buyerId # procs[p].id}
     /\ (~\E p \in Procs : DeleteSucceeds(p)) => history \subseteq history'
     /\ \A x \in history' : \E b \in buyers' : b.id = x.buyerId]_vars

\* a delete has removed a buyer together with its history entry while
\* another buyer and its history entry are still there
C27_Witness ==
  \E p \in Procs :
    /\ Done(p, "DELETE", 200)
    /\ procs[p].cur # NoRow
    /\ ~\E b \in buyers : b.id = procs[p].id
    /\ ~\E x \in history : x.buyerId = procs[p].id
    /\ \E x \in history : x.buyerId # procs[p].id

\* ---------------------------------------------------------------- C30
\* the update statement of the PUT in slot p goes through in this step
UpdateSucceeds(p) ==
  /\ procs[p].pc = "put_update"
  /\ procs'[p].pc = "put_history" \/ (procs'[p].pc = "done" /\ procs'[p].status = 200)
  /\ selectBuyer(procs[p].id) # NoRow

\* C30: every PUT that goes through leaves the buyer's stored updatedAt
\* strictly later than the value that was stored before it.
C30_UpdatedAtStrictlyLater ==
  [][\A p \in Procs :
       UpdateSucceeds(p) =>
         \A b \in buyers' : b.id = procs[p].id =>
           b.updatedAt > selectBuyer(procs[p].id).updatedAt]_vars

\* ---------------------------------------------------------------- C26
\* the step counts the request against one of the configured limiters, or
\* that limiter denies it and the request is answered 429
PassesLimiter(p) ==
  \E limiter \in Limiters :
    LET r == check(limiter, keyOf(limiter, ClientHeaders), store, now) IN
    /\ store' = r.store
    /\ r.allowed => store' # store
    /\ ~r.allowed => procs'[p].pc = "done" /\ procs'[p].status = 429

\* C26: every request that creates, updates, deletes or imports leads and
\* goes on to a write has passed a limiter check when it started, and a
\* request the limiter denies writes nothing.
C26_MutationsPassTheLimiterFirst ==
  [][\A p \in Procs, op \in {"POST", "PUT", "DELETE", "IMPORT"} :
       Begins(p, op) =>
         /\ procs'[p].pc # "done" => PassesLimiter(p)
         /\ procs'[p].status = 429 => buyers' = buyers /\ history' = history]_vars

\* ---------------------------------------------------------------- C29
\* a GET with this token is under way or has signed its user in
Consuming(vs, token) ==
  \E v \in Verifs :
    /\ vs[v].token = token
    /\ vs[v].pc \in {"select", "upsert", "session"} \/ (vs[v].pc = "done" /\ vs[v].status = 200)

\* a GET with this token has ended in an error response
Failed(vs, token) ==
  \E v \in Verifs : vs[v].token = token /\ vs[v].pc = "done" /\ vs[v].status \in {400, 500}

\* C29: a token that is stored and unused, and that a GET has answered with
\* an error (400 or 500), stays stored and unused for as long as it has not
\* expired and no other GET is using it, so that a later GET with the
\* matching email can succeed.
C29_ErrorDoesNotConsumeToken ==
  [][\A t \in DOMAIN customTokenStore :
       (/\ ~customTokenStore[t].used \/ Consuming(verifs, t)
        /\ ~(now' > customTokenStore[t].expires)
        /\ Failed(verifs', t)
        /\ ~Consuming(verifs', t))
       => t \in DOMAIN customTokenStore' /\ ~customTokenStore'[t].used]_vars

\* ---------------------------------------------------------------- C21
\* the signup in slot s ends in this step, after its attempt to send the mail
SignupMailed(s) == signups[s].pc = "mail" /\ signups'[s].pc = "done"

\* the signup is answered with success and its user and token stay
SignupKept(s) ==
  /\ signups'[s].status = 200
  /\ UserRow(signups[s].userId, signups[s].email, NoTime) \in users'
  /\ \E t \in verificationTokens' :
       t.identifier = signups[s].email /\ t.token = signups[s].token

\* a request with email and token reaches the route that sends the mail
MailRequested ==
  /\ nreq' = nreq + 1
  /\ mailLast'.at = now
  /\ mailLast'.email # Absent /\ mailLast'.token # NoToken
  /\ UNCHANGED <<signups, customTokenStore>>

\* C21 as stated: whether or not the mail can be sent, the signup and the
\* request that sends the verification email are answered with success and
\* the user and the tokens created before stay in place.
C21_MailFailureNeverFailsRequest ==
  [][/\ \A s \in Signups : SignupMailed(s) => SignupKept(s)
     /\ MailRequested =>
          /\ mailLast'.status = 200
          /\ UNCHANGED <<users, verificationTokens, customTokenStore>>]_vars

\* C21, amended: a signup is answered with success whether or not its mail
\* can be sent, and its user and token stay; the request that sends the
\* verification email is answered 200 when the mail is sent and 500 when
\* it is not, and leaves users and tokens as they are.
C21_SignupSurvivesMailFailure ==
  [][/\ \A s \in Signups : SignupMailed(s) => SignupKept(s)
     /\ MailRequested =>
          /\ mailLast'.status = (IF mailLast'.sent THEN 200 ELSE 500)
          /\ UNCHANGED <<users, verificationTokens, customTokenStore>>]_vars

\* a signup whose mail could not be sent has been answered with success,
\* and a request to send the mail of an issued token has been answered 500
C21_Witness ==
  /\ \E s \in Signups :
       /\ signups[s].pc = "done" /\ signups[s].status = 200 /\ ~signups[s].mailed
       /\ \E u \in users : u.id = signups[s].userId
       /\ \E t \in verificationTokens : t.token = signups[s].token
  /\ mailLast.status = 500 /\ mailLast.token \in DOMAIN customTokenStore

\* ---------------------------------------------------------------- C22
\* C22: however signups for one email interleave, at most one user row
\* holds that email, and a signup that met no failing statement either
\* created the row and is answered 200 or is answered 400 with a message,
\* never 500.
C22_OneUserOthersGet400 ==
  /\ \A u1 \in users, u2 \in users : u1.email = u2.email => u1 = u2
  /\ \A s \in Signups :
       (signups[s].pc = "done" /\ ~signups[s].fault) =>
         \/ /\ signups[s].status = 200
            /\ UserRow(signups[s].userId, signups[s].email, NoTime) \in users
         \/ signups[s].status = 400 /\ signups[s].message # ""

\* ---------------------------------------------------------------- C23
\* the token resolves to a session that has not expired
Resolves(sessionToken, ss, us, t) == getCustomSession(sessionToken, ss, us, t) # NoCustomSession

\* C23: a session token that has been handed out and does not resolve to a
\* valid session (its session has expired or has been deleted) does not
\* resolve to one after any adapter operation or passage of time.
C23_NoWayBackToValid ==
  [][\A sessionToken \in 1..(nextId - 1) :
       ~Resolves(sessionToken, sessions, users, now)
         => ~Resolves(sessionToken, sessions', users', now')]_vars

\* ---------------------------------------------------------------- C24
\* this step is a call of the adapter method
AdStep(method) == nreq' = nreq + 1 /\ adLast'.method = method

\* C24: useVerificationToken(identifier, token) deletes the stored row that
\* matches and returns it, so that a later call finds nothing; when no row
\* matches it returns null and deletes nothing.
C24_UseDeletesAndReturnsOnce ==
  [][AdStep("useVerificationToken") =>
       LET match == {t \in verificationTokens :
                       t.identifier = adLast'.email /\ t.token = adLast'.token}
       IN IF match # {}
          THEN adLast'.verificationToken \in match /\ verificationTokens' = verificationTokens \ match
          ELSE /\ adLast'.verificationToken = NoVerificationToken
               /\ verificationTokens' = verificationTokens]_vars

\* ---------------------------------------------------------------- C25
\* C25: createUser stores a user row under an id no user had and returns
\* it, and getUserByEmail and getUser then return that user; for an email
\* that a user already has it fails and stores nothing.
C25_CreateUserPersists ==
  [][AdStep("createUser") =>
       LET u == adLast'.user IN
       IF \E x \in users : x.email = adLast'.email
       THEN adLast'.threw /\ users' = users
       ELSE /\ ~adLast'.threw
            /\ u.email = adLast'.email
            /\ ~\E x \in users : x.id = u.id
            /\ users' = users \cup {u}
            /\ getUserByEmail(u.email, users') = u
            /\ getUser(u.id, users') = u]_vars

\* ---------------------------------------------------------------- C28
\* C28: once a sign-out with session token t has been answered with
\* success, no session row holds t and t resolves to no session.
C28_SignedOutTokenIsGone ==
  (loLast.pc = "done" /\ loLast.status = 200) =>
    /\ ~\E x \in sessions : x.sessionToken = loLast.cookie
    /\ ~Resolves(loLast.cookie, sessions, users, now)

====
